---------------------------- MODULE Spec2Model ----------------------------
(***************************************************************************)
(* Model of the mbl release manager (src/mbl-release-manager and           *)
(* src/release_manager): input validation, manifest parsing, remote-state  *)
(* validation, the concurrent clone / create-revision / push phase and the *)
(* rollback performed by ReleaseManager.__exit__.                          *)
(*                                                                         *)
(* Strings are modelled as sequences of tokens.  The token "/" is the      *)
(* path separator; every other token stands for a run of characters that   *)
(* contains no "/".  TokLen gives the number of characters of a token.     *)
(***************************************************************************)
EXTENDS Integers, Sequences, FiniteSets, TLC

-----------------------------------------------------------------------------
(* Python values *)

None == <<"None">>

\* no exception is propagating
NoException == "no exception"

EmptyDict == [k \in {} |-> None]

Keys(d) == DOMAIN d

RECURSIVE SetToSeq(_)
SetToSeq(S) ==
    IF S = {} THEN <<>>
    ELSE LET x == CHOOSE y \in S : TRUE IN <<x>> \o SetToSeq(S \ {x})

\* dict(pairs): the value of a key is the one of its last pair
dict_of(pairs) ==
    [k \in {pairs[i][1] : i \in DOMAIN pairs} |->
        pairs[CHOOSE i \in DOMAIN pairs :
                  pairs[i][1] = k /\ \A j \in DOMAIN pairs : pairs[j][1] = k => j <= i][2]]

-----------------------------------------------------------------------------
(* String helpers *)

TokLen(t) ==
    CASE t = "/" -> 1
      [] t \in {"c0ffee40", "deadbeef40", "abad1dea40"} -> 40
      [] t \in {"c0ffee39"} -> 39
      [] t \in {"c0ffee38"} -> 38
      [] t \in {"0x"} -> 2
      [] t \in {"refs"} -> 4
      [] t \in {"heads"} -> 5
      [] t \in {"tags"} -> 4
      [] OTHER -> 2

\* the token consists of hexadecimal digits only
IsHexTok(t) == t \in {"c0ffee40", "deadbeef40", "abad1dea40", "c0ffee39", "c0ffee38"}

RECURSIVE StrLen(_)
StrLen(s) == IF s = <<>> THEN 0 ELSE TokLen(Head(s)) + StrLen(Tail(s))

startswith(s, p) == Len(s) >= Len(p) /\ SubSeq(s, 1, Len(p)) = p

LastSlash(s) ==
    IF \E i \in 1..Len(s) : s[i] = "/"
    THEN CHOOSE i \in 1..Len(s) :
             s[i] = "/" /\ \A j \in (i + 1)..Len(s) : s[j] # "/"
    ELSE 0

\* str.rsplit("/", 1): a list of one element when there is no "/"
rsplit(s) ==
    IF LastSlash(s) = 0
    THEN <<s>>
    ELSE <<SubSeq(s, 1, LastSlash(s) - 1),
           SubSeq(s, LastSlash(s) + 1, Len(s))>>

-----------------------------------------------------------------------------
(* Program constants *)

COMMON_SD_KEY_NAME == <<"_common_">>
EXTERNAL_SD_KEY_NAME == <<"_external_">>

REF_PREFIX == <<"refs", "/">>
REF_BRANCH_PREFIX == <<"refs", "/", "heads", "/">>
REF_TAG_PREFIX == <<"refs", "/", "tags", "/">>
HASH_FIXED_LEN == 40

ARM_MRR_REMOTE == <<"ssh://git@github.com">>
MRR_MANIFEST_REMOTE_KEY == "github"
ARM_MRR_REPO_NAME_PREFIX == <<"armmbed">>
MBL_MANIFEST_REPO_SHORT_NAME == <<"mbl-manifest">>
MBL_MANIFEST_REPO_NAME ==
    ARM_MRR_REPO_NAME_PREFIX \o <<"/">> \o MBL_MANIFEST_REPO_SHORT_NAME
MBL_LINKED_REPOSITORIES_REPO_SHORT_NAME == <<"meta-mbl">>
MBL_LINKED_REPOSITORIES_REPO_NAME ==
    ARM_MRR_REPO_NAME_PREFIX \o <<"/">> \o MBL_LINKED_REPOSITORIES_REPO_SHORT_NAME

SUMMARY_H_PUSH == "PUSH: "
SUMMARY_H_MODIFY_FILE == "MODIFY FILE: "
SUMMARY_H_BKP == "CREATE BACKUP FILE: "
SUMMARY_H_BRANCH == "CREATE BRANCH: "
SUMMARY_H_TAG == "CREATE TAG: "

-----------------------------------------------------------------------------
(* git_handler: revision syntax *)

\* int(commit_hash, 16) succeeds: with base 16 the literal may start with
\* the prefix "0x", which is followed by at least one hexadecimal digit
ParsesAsHex(s) ==
    LET digits == IF Len(s) >= 1 /\ s[1] = "0x" THEN Tail(s) ELSE s
    IN  Len(digits) >= 1 /\ \A i \in 1..Len(digits) : IsHexTok(digits[i])

is_valid_git_commit_hash(commit_hash) ==
    IF StrLen(commit_hash) # HASH_FIXED_LEN
    THEN FALSE
    ELSE ParsesAsHex(commit_hash)

\* git check-ref-format --normalize ref returns ref unchanged: the ref has
\* at least two components, none empty, and no leading or trailing "/"
CheckRefFormatNormalized(ref) ==
    /\ Len(ref) >= 3
    /\ ref[1] # "/"
    /\ ref[Len(ref)] # "/"
    /\ \A i \in 1..(Len(ref) - 1) : ~(ref[i] = "/" /\ ref[i + 1] = "/")
    /\ \E i \in 1..Len(ref) : ref[i] = "/"
    /\ \A i \in 1..Len(ref) : ref[i] # "~"

is_valid_git_ref_name(ref) ==
    IF ~startswith(ref, REF_PREFIX)
    THEN FALSE
    ELSE CheckRefFormatNormalized(ref)

is_valid_git_branch_name(branch_name) ==
    IF ~startswith(branch_name, REF_BRANCH_PREFIX)
    THEN FALSE
    ELSE is_valid_git_ref_name(branch_name)

is_valid_git_tag_name(tag_name) ==
    IF ~startswith(tag_name, REF_TAG_PREFIX)
    THEN FALSE
    ELSE is_valid_git_ref_name(tag_name)

is_valid_revision(rev) ==
    \/ is_valid_git_commit_hash(rev)
    \/ is_valid_git_branch_name(rev)
    \/ is_valid_git_tag_name(rev)

get_base_rev_name(full_rev_name) == rsplit(full_rev_name)[2]

-----------------------------------------------------------------------------
(* ReleaseManager.parse_and_validate_input_file                            *)
(* nrd is the dictionary json.loads returns: scope key -> dictionary of    *)
(* repository name -> value.  The result is "ok" or the check that raised. *)

\* the merged list 'validations': keys of every file-specific sub-dictionary
FileSpecificKeys(nrd) ==
    UNION {Keys(nrd[key]) :
              key \in Keys(nrd) \ {COMMON_SD_KEY_NAME, EXTERNAL_SD_KEY_NAME}}

ExternalValuesBad(nrd) ==
    \E k \in Keys(nrd[EXTERNAL_SD_KEY_NAME]) :
        LET values == nrd[EXTERNAL_SD_KEY_NAME][k]
        IN  Len(values) # 2 \/ values[1] = values[2]

RevisionsBad(nrd) ==
    \E sd \in Keys(nrd) :
        IF sd = EXTERNAL_SD_KEY_NAME
        THEN \E k \in Keys(nrd[sd]) :
                 ~(is_valid_revision(nrd[sd][k][1])
                   /\ is_valid_revision(nrd[sd][k][2]))
        ELSE \E k \in Keys(nrd[sd]) : ~is_valid_revision(nrd[sd][k])

KeyClash_Mutant(nrd) ==
    \E f \in Keys(nrd) \ {COMMON_SD_KEY_NAME, EXTERNAL_SD_KEY_NAME} :
        \E k \in Keys(nrd[EXTERNAL_SD_KEY_NAME]) : k \in Keys(nrd[f])

KeyClash(nrd) ==
    LET validations == FileSpecificKeys(nrd)
    IN  IF validations # {}
        THEN \/ /\ COMMON_SD_KEY_NAME \in Keys(nrd)
                /\ \E key \in Keys(nrd[COMMON_SD_KEY_NAME]) : key \in validations
             \/ /\ EXTERNAL_SD_KEY_NAME \in Keys(nrd)
                /\ \E key \in Keys(nrd[EXTERNAL_SD_KEY_NAME]) : key \in validations
        ELSE FALSE

parse_and_validate_input_file(nrd) ==
    IF EXTERNAL_SD_KEY_NAME \notin Keys(nrd)
    THEN "ValueError: no external key"
    ELSE IF MBL_MANIFEST_REPO_NAME \notin Keys(nrd[EXTERNAL_SD_KEY_NAME])
    THEN "ValueError: no manifest repository"
    ELSE IF ExternalValuesBad(nrd)
    THEN "ValueError: bad external list"
    ELSE IF RevisionsBad(nrd)
    THEN "ValueError: invalid revision"
    ELSE IF KeyClash(nrd)
    THEN "ValueError: key clash"
    ELSE "ok"

-----------------------------------------------------------------------------
(* json.loads(text, object_pairs_hook=self.dict_raise_on_duplicates)       *)
(* The input file is [legal, pairs]: legal tells whether the text is JSON, *)
(* pairs are the (key, value) pairs of the top-level object in the order   *)
(* of the text; the value of a top-level pair is a nested object, given by *)
(* its own sequence of (key, value) pairs.                                 *)

\* the loop 'for k, v in ordered_pairs'; st = [err, d]
RECURSIVE DuplicatesLoop(_, _)
DuplicatesLoop(st, ordered_pairs) ==
    IF ordered_pairs = <<>> \/ st.err # "ok"
    THEN st
    ELSE LET k == Head(ordered_pairs)[1]
             v == Head(ordered_pairs)[2]
         IN  IF k \in Keys(st.d)
             THEN [st EXCEPT !.err = "ValueError: duplicate key"]
             ELSE DuplicatesLoop([st EXCEPT !.d = (k :> v) @@ st.d],
                                 Tail(ordered_pairs))

dict_raise_on_duplicates(ordered_pairs) ==
    DuplicatesLoop([err |-> "ok", d |-> EmptyDict], ordered_pairs)

\* the decoder calls the hook for a nested object when it has read it, that
\* is before it goes on with the pairs of the enclosing object;
\* st = [err, pairs], pairs holding the values decoded so far
RECURSIVE DecodeValues(_, _)
DecodeValues(st, pairs) ==
    IF pairs = <<>> \/ st.err # "ok"
    THEN st
    ELSE LET inner == dict_raise_on_duplicates(Head(pairs)[2])
         IN  IF inner.err # "ok"
             THEN [st EXCEPT !.err = inner.err]
             ELSE DecodeValues(
                      [st EXCEPT !.pairs = Append(@, <<Head(pairs)[1], inner.d>>)],
                      Tail(pairs))

\* a decoder that calls the hook for the top-level object only
json_loads_Mutant(file) ==
    IF ~file.legal
    THEN [err |-> "JSONDecodeError", d |-> EmptyDict]
    ELSE dict_raise_on_duplicates(
             [i \in DOMAIN file.pairs |->
                 <<file.pairs[i][1], dict_of(file.pairs[i][2])>>])

\* [err, d]: the exception json.loads raises ("ok": none) and the dictionary
json_loads(file) ==
    IF ~file.legal
    THEN [err |-> "JSONDecodeError", d |-> EmptyDict]
    ELSE LET vals == DecodeValues([err |-> "ok", pairs |-> <<>>], file.pairs)
         IN  IF vals.err # "ok"
             THEN [err |-> vals.err, d |-> EmptyDict]
             ELSE dict_raise_on_duplicates(vals.pairs)

-----------------------------------------------------------------------------
(* ReleaseManager.get_new_ref_from_new_revisions *)

\* a lookup that falls back to any scope other than the external one
get_new_ref_Mutant(nr, sd_key_name, repo_name) ==
    IF sd_key_name \in Keys(nr) /\ repo_name \in Keys(nr[sd_key_name])
    THEN IF sd_key_name = EXTERNAL_SD_KEY_NAME
         THEN nr[sd_key_name][repo_name][2]
         ELSE nr[sd_key_name][repo_name]
    ELSE IF \E sd \in Keys(nr) \ {EXTERNAL_SD_KEY_NAME} : repo_name \in Keys(nr[sd])
    THEN LET sd == CHOOSE x \in Keys(nr) \ {EXTERNAL_SD_KEY_NAME} :
                       repo_name \in Keys(nr[x])
         IN  nr[sd][repo_name]
    ELSE None

get_new_ref_from_new_revisions(nr, sd_key_name, repo_name) ==
    IF sd_key_name \in Keys(nr) /\ repo_name \in Keys(nr[sd_key_name])
    THEN IF sd_key_name = EXTERNAL_SD_KEY_NAME
         THEN nr[sd_key_name][repo_name][2]
         ELSE nr[sd_key_name][repo_name]
    ELSE IF COMMON_SD_KEY_NAME \in Keys(nr)
            /\ repo_name \in Keys(nr[COMMON_SD_KEY_NAME])
    THEN nr[COMMON_SD_KEY_NAME][repo_name]
    ELSE None

-----------------------------------------------------------------------------
(* git_handler: URLs *)

\* "{}:/{}.git".format(remote_prefix, repo_name)
build_url_from_repo_name(remote_prefix, repo_name) ==
    remote_prefix \o <<":/">> \o repo_name \o <<".git">>

build_url_from_base_repo_name(remote_prefix, prefix, base_name) ==
    build_url_from_repo_name(remote_prefix, prefix \o <<"/">> \o base_name)

-----------------------------------------------------------------------------
(* repo_manifest.RepoManifestProject *)

\* a project object whose flag is_arm_mrr looks at the remote key only
RepoManifestProject_Mutant(full_name, prefix, short_name, remote_key, url, revision) ==
    [full_name   |-> full_name,
     name_prefix |-> prefix,
     short_name  |-> short_name,
     remote_key  |-> remote_key,
     url         |-> url,
     revision    |-> revision,
     cloned_repo |-> None,
     is_arm_mrr  |-> (remote_key = MRR_MANIFEST_REMOTE_KEY)]

RepoManifestProject(full_name, prefix, short_name, remote_key, url, revision) ==
    [full_name   |-> full_name,
     name_prefix |-> prefix,
     short_name  |-> short_name,
     remote_key  |-> remote_key,
     url         |-> url,
     revision    |-> revision,
     cloned_repo |-> None,
     is_arm_mrr  |-> (prefix = ARM_MRR_REPO_NAME_PREFIX
                      /\ remote_key = MRR_MANIFEST_REMOTE_KEY)]

-----------------------------------------------------------------------------
(* ReleaseManager.process_manifest_files: one XML file                     *)
(* An XML file is [default, remotes, projects]: default is the <default>   *)
(* element ([present, revision, children]), remotes maps a remote name to  *)
(* its fetch prefix, projects is the sequence of <project> elements, each  *)
(* [name, remote, revision, upstream] with None for a missing attribute.   *)

MASTER == <<"master">>

\* 'if node:' is the truth value of an ElementTree element, which is false
\* for an element without child elements
default_rev_of(xml) ==
    IF xml.default.present /\ xml.default.children > 0
    THEN IF xml.default.revision # None THEN xml.default.revision ELSE MASTER
    ELSE MASTER

\* the duplicate test of the project loop: 'short_name in name_to_proj'
project_repeats(short_name, full_name, name_to_proj) ==
    short_name \in Keys(name_to_proj)

\* the body of 'for atype in root.findall("project")' applied to element
\* number i, given the loop state acc = [err, name_to_proj, elems, is_changed]
ProjectStep(acc, atype, i, base_name, default_rev, remotes, nr) ==
    LET full_name == atype.name
        parts     == rsplit(full_name)
    IN
    IF Len(parts) # 2
    THEN [acc EXCEPT !.err = "ValueError: unpack"]
    ELSE
    LET prefix     == parts[1]
        short_name == parts[2]
    IN
    IF project_repeats(short_name, full_name, acc.name_to_proj)
    THEN [acc EXCEPT !.err = "ValueError: project repeats"]
    ELSE IF atype.remote \notin Keys(remotes)
    THEN [acc EXCEPT !.err = "KeyError: remote"]
    ELSE
    LET url      == remotes[atype.remote] \o <<":/">> \o full_name \o <<".git">>
        revision == IF atype.revision = None \/ atype.revision = <<>>
                    THEN default_rev ELSE atype.revision
        proj     == RepoManifestProject(full_name, prefix, short_name,
                                        atype.remote, url, revision)
        new_ref  == get_new_ref_from_new_revisions(nr, base_name, full_name)
        is_default == (new_ref = REF_BRANCH_PREFIX \o default_rev)
        changed  == acc.is_changed \/ is_default \/ new_ref # None
        atype1   == IF is_default
                    THEN [atype EXCEPT !.revision = None]
                    ELSE IF new_ref # None
                    THEN IF is_valid_git_commit_hash(new_ref)
                         THEN [atype EXCEPT !.revision = new_ref]
                         ELSE [atype EXCEPT !.revision = get_base_rev_name(new_ref)]
                    ELSE atype
        atype2   == IF changed /\ atype1.upstream # None
                    THEN [atype1 EXCEPT !.upstream = None]
                    ELSE atype1
    IN
    IF is_default /\ atype.revision = None
    THEN [acc EXCEPT !.err = "KeyError: revision",
                     !.name_to_proj = (full_name :> proj) @@ acc.name_to_proj]
    ELSE [err          |-> "ok",
          name_to_proj |-> (full_name :> proj) @@ acc.name_to_proj,
          elems        |-> [acc.elems EXCEPT ![i] = atype2],
          is_changed   |-> changed]

RECURSIVE ProjectLoop(_, _, _, _, _, _)
ProjectLoop(acc, i, xml, base_name, default_rev, nr) ==
    IF i > Len(xml.projects) \/ acc.err # "ok"
    THEN acc
    ELSE ProjectLoop(ProjectStep(acc, xml.projects[i], i, base_name,
                                 default_rev, xml.remotes, nr),
                     i + 1, xml, base_name, default_rev, nr)

\* Parse one manifest file. The result is [err, rmf, xml, is_changed]: rmf
\* is the RepoManifestFile object, xml the element tree after the in-place
\* revision updates.
parse_manifest_file(xml, base_name, nr) ==
    LET default_rev == default_rev_of(xml)
        acc0 == [err |-> "ok", name_to_proj |-> EmptyDict,
                 elems |-> xml.projects, is_changed |-> FALSE]
        acc  == ProjectLoop(acc0, 1, xml, base_name, default_rev, nr)
        err  == IF acc.err # "ok" THEN acc.err
                ELSE IF Len(xml.projects) = 0 THEN "AssertionError: base_name"
                ELSE "ok"
    IN  [err        |-> err,
         rmf        |-> [file_name            |-> base_name,
                         default_rev          |-> default_rev,
                         remote_key_to_remote |-> xml.remotes,
                         repo_name_to_proj    |-> acc.name_to_proj],
         xml        |-> [xml EXCEPT !.projects = acc.elems],
         is_changed |-> acc.is_changed]

-----------------------------------------------------------------------------
(* The remote repositories.  rem maps <<url, ref path>> to [commit, by]:   *)
(* the commit the ref points at and who created the ref ("init": it was    *)
(* there before the run, "run": a push of this run, "peer": a concurrent   *)
(* actor).                                                                 *)

list_remote_references(rem, url) == {k[2] : k \in {x \in Keys(rem) : x[1] = url}}

does_branch_exist_in_remote_repo(rem, repo_url, branch_name, is_base_name) ==
    LET refs == list_remote_references(rem, repo_url)
    IN  \/ (is_base_name /\ (REF_BRANCH_PREFIX \o branch_name) \in refs)
        \/ branch_name \in refs

does_tag_exist_in_remote_repo(rem, repo_url, tag_name, is_base_name) ==
    LET refs == list_remote_references(rem, repo_url)
    IN  \/ (is_base_name /\ (REF_TAG_PREFIX \o tag_name) \in refs)
        \/ tag_name \in refs

\* the name of a ref below refs/heads/ or refs/tags/
NameOfRef(ref) == SubSeq(ref, 5, Len(ref))

RemoteTags(rem, url) ==
    LET ts == {r \in list_remote_references(rem, url) : startswith(r, REF_TAG_PREFIX)}
    IN  [n \in {NameOfRef(r) : r \in ts} |-> rem[<<url, REF_TAG_PREFIX \o n>>].commit]

RemoteCommits(rem, url) == {rem[k].commit : k \in {x \in Keys(rem) : x[1] = url}}

\* git.Repo.clone_from(url, dest_path, branch=name): the handle of the clone,
\* [err, active_branch, head_commit, heads, tags]; active_branch is None on
\* a detached head
clone_from_branch(rem, url, name) ==
    IF <<url, REF_BRANCH_PREFIX \o name>> \in Keys(rem)
    THEN [err |-> "ok", active_branch |-> name,
          head_commit |-> rem[<<url, REF_BRANCH_PREFIX \o name>>].commit,
          heads |-> (name :> rem[<<url, REF_BRANCH_PREFIX \o name>>].commit),
          tags |-> RemoteTags(rem, url)]
    ELSE IF <<url, REF_TAG_PREFIX \o name>> \in Keys(rem)
    THEN [err |-> "ok", active_branch |-> None,
          head_commit |-> rem[<<url, REF_TAG_PREFIX \o name>>].commit,
          heads |-> EmptyDict,
          tags |-> RemoteTags(rem, url)]
    ELSE [err |-> "GitCommandError: clone", active_branch |-> None,
          head_commit |-> None, heads |-> EmptyDict, tags |-> EmptyDict]

\* git.Repo.clone_from(url, dest_path) followed by git checkout <hash>
clone_from_hash(rem, url, hash) ==
    IF hash \in RemoteCommits(rem, url)
    THEN [err |-> "ok", active_branch |-> None, head_commit |-> hash,
          heads |-> IF <<url, REF_BRANCH_PREFIX \o MASTER>> \in Keys(rem)
                    THEN (MASTER :> rem[<<url, REF_BRANCH_PREFIX \o MASTER>>].commit)
                    ELSE EmptyDict,
          tags |-> RemoteTags(rem, url)]
    ELSE [err |-> "GitCommandError: checkout", active_branch |-> None,
          head_commit |-> None, heads |-> EmptyDict, tags |-> EmptyDict]

ValueErrorHandle ==
    [err |-> "ValueError: checkout_rev_name", active_branch |-> None,
     head_commit |-> None, heads |-> EmptyDict, tags |-> EmptyDict]

\* GitClonedRepository.clone_repo
clone_repo(rem, url, checkout_rev_name) ==
    IF is_valid_git_branch_name(checkout_rev_name)
       /\ does_branch_exist_in_remote_repo(rem, url, checkout_rev_name, FALSE)
    THEN clone_from_branch(rem, url, get_base_rev_name(checkout_rev_name))
    ELSE IF is_valid_git_tag_name(checkout_rev_name)
            /\ does_tag_exist_in_remote_repo(rem, url, checkout_rev_name, FALSE)
    THEN clone_from_branch(rem, url, get_base_rev_name(checkout_rev_name))
    ELSE IF is_valid_git_commit_hash(checkout_rev_name)
    THEN clone_from_hash(rem, url, checkout_rev_name)
    ELSE ValueErrorHandle

\* git clone refuses a destination path that exists and is not empty: the
\* path is taken when a repository of the run was cloned into it
dest_occupied(heap, dest_path) ==
    \E v \in Keys(heap) : heap[v].clone_dest_path = dest_path

\* GitClonedRepository.__init__: the cloned repository object; its field err
\* is "ok" or the exception the constructor raised
GitClonedRepository(rem, remote, name_prefix, short_name, clone_base_path, checkout_rev) ==
    LET url == build_url_from_base_repo_name(remote, name_prefix, short_name)
        first == IF is_valid_revision(checkout_rev)
                 THEN clone_repo(rem, url, checkout_rev)
                 ELSE clone_repo(rem, url, REF_BRANCH_PREFIX \o checkout_rev)
        handle == IF ~is_valid_revision(checkout_rev)
                     /\ first.err = "ValueError: checkout_rev_name"
                  THEN clone_repo(rem, url, REF_TAG_PREFIX \o checkout_rev)
                  ELSE first
    IN  [err             |-> handle.err,
         short_name      |-> short_name,
         name_prefix     |-> name_prefix,
         full_name       |-> name_prefix \o <<"/">> \o short_name,
         remote_url_prefix |-> remote,
         checkout_rev    |-> checkout_rev,
         clone_dest_path |-> clone_base_path \o <<"/">> \o short_name,
         url             |-> url,
         handle          |-> handle]

-----------------------------------------------------------------------------
(* ReleaseManager.create_and_update_new_revisions_worker, lines 724-757:   *)
(* create the new branch or tag in the clone.  The result is               *)
(* [err, repo, new_rev, log]: the repository after the step, the created   *)
(* reference object [kind, name, path, commit] and the summary entry.      *)

NoRef == [kind |-> "none", name |-> None, path |-> None, commit |-> None]

create_new_revision(repo, new_rev) ==
    LET parts == rsplit(new_rev) IN
    IF Len(parts) < 2
    THEN [err |-> "IndexError: new_rev_short", repo |-> repo,
          new_rev |-> NoRef, log |-> <<>>]
    ELSE
    LET new_rev_short == parts[2]
        src_cmt_ref   == repo.handle.head_commit
    IN
    IF startswith(new_rev, REF_BRANCH_PREFIX)
    THEN IF new_rev_short \in Keys(repo.handle.heads)
         THEN [err |-> "OSError: create_head", repo |-> repo,
               new_rev |-> NoRef, log |-> <<>>]
         ELSE [err  |-> "ok",
               repo |-> [repo EXCEPT
                           !.handle.heads = (new_rev_short :> src_cmt_ref) @@ @,
                           !.handle.active_branch = new_rev_short],
               new_rev |-> [kind |-> "head", name |-> new_rev_short,
                            path |-> REF_BRANCH_PREFIX \o new_rev_short,
                            commit |-> src_cmt_ref],
               log |-> <<[h |-> SUMMARY_H_BRANCH, repo |-> repo.full_name,
                          name |-> new_rev_short, commit |-> src_cmt_ref]>>]
    ELSE IF new_rev_short \in Keys(repo.handle.tags)
         THEN [err |-> "OSError: create_tag", repo |-> repo,
               new_rev |-> NoRef, log |-> <<>>]
         ELSE [err  |-> "ok",
               repo |-> [repo EXCEPT
                           !.handle.tags = (new_rev_short :> src_cmt_ref) @@ @],
               new_rev |-> [kind |-> "tag", name |-> new_rev_short,
                            path |-> REF_TAG_PREFIX \o new_rev_short,
                            commit |-> src_cmt_ref],
               log |-> <<[h |-> SUMMARY_H_TAG, repo |-> repo.full_name,
                          name |-> new_rev_short, commit |-> src_cmt_ref]>>]

\* repo.handle.active_branch as a reference object; kind "none" stands for
\* the TypeError raised on a detached head
active_branch_of(repo) ==
    IF repo.handle.active_branch = None
    THEN NoRef
    ELSE [kind |-> "head", name |-> repo.handle.active_branch,
          path |-> REF_BRANCH_PREFIX \o repo.handle.active_branch,
          commit |-> repo.handle.heads[repo.handle.active_branch]]

\* a worker that leaves only mbl-manifest to the final step
worker_pushes_Mutant(repo) == repo.full_name # MBL_MANIFEST_REPO_NAME

\* the worker pushes unless the repository is mbl-manifest or meta-mbl
worker_pushes(repo) ==
    repo.full_name \notin {MBL_MANIFEST_REPO_NAME, MBL_LINKED_REPOSITORIES_REPO_NAME}

\* handle.index.commit(message): a new commit on top of the head commit
NewCommit(parent) == <<"commit-on">> \o parent

commit_in(repo) ==
    LET c == NewCommit(repo.handle.head_commit) IN
    IF repo.handle.active_branch = None
    THEN [repo EXCEPT !.handle.head_commit = c]
    ELSE [repo EXCEPT !.handle.head_commit = c,
                      !.handle.heads[repo.handle.active_branch] = c]

-----------------------------------------------------------------------------
(* ReleaseManager.repo_push                                                *)
(* The results git push can give for a ref: "ok", the server-side error    *)
(* "reference already exists" (a concurrent peer created the ref), or any  *)
(* other failure.                                                          *)

PushResults(rem, url, path) ==
    IF <<url, path>> \notin Keys(rem)
    THEN {"ok", "reference already exists", "other error"}
    ELSE IF rem[<<url, path>>].by = "peer"
    THEN {"reference already exists", "other error"}
    ELSE {"ok", "other error"}

\* the remote after git push with the given result
RemoteAfterPush(rem, url, ref, result) ==
    IF result = "ok"
    THEN IF <<url, ref.path>> \in Keys(rem)
         THEN [rem EXCEPT ![<<url, ref.path>>].commit = ref.commit]
         ELSE (<<url, ref.path>> :> [commit |-> ref.commit, by |-> "run"]) @@ rem
    ELSE IF result = "reference already exists" /\ <<url, ref.path>> \notin Keys(rem)
    THEN (<<url, ref.path>> :> [commit |-> <<"peer-commit">>, by |-> "peer"]) @@ rem
    ELSE rem

\* whether the except clause of repo_push swallows the GitCommandError
swallows_Mutant(result) == result # "ok"

swallows(result) == result = "reference already exists"

\* repo_push without the test of args.simulate
repo_push_Mutant(sim, rem, pushed, net, u, repo, new_rev, result) ==
    LET net1 == Append(net, [op |-> "push", url |-> repo.url, ref |-> new_rev.path,
                             unit |-> u, result |-> result])
        rem1 == RemoteAfterPush(rem, repo.url, new_rev, result)
    IN  IF result = "ok"
        THEN [err |-> "ok", rem |-> rem1,
              pushed |-> Append(pushed, <<u, new_rev>>), net |-> net1]
        ELSE IF result = "reference already exists"
        THEN [err |-> "ok", rem |-> rem1, pushed |-> pushed, net |-> net1]
        ELSE [err |-> "GitCommandError: push", rem |-> rem1,
              pushed |-> pushed, net |-> net1]

\* a repo_push that tries once more after a failure it does not swallow
repo_push_Retry(sim, rem, pushed, net, u, repo, new_rev, result) ==
    LET e    == [op |-> "push", url |-> repo.url, ref |-> new_rev.path,
                 unit |-> u, result |-> result]
        rem1 == RemoteAfterPush(rem, repo.url, new_rev, result)
    IN  IF sim
        THEN [err |-> "ok", rem |-> rem, pushed |-> pushed, net |-> net]
        ELSE IF result = "ok"
        THEN [err |-> "ok", rem |-> rem1,
              pushed |-> Append(pushed, <<u, new_rev>>), net |-> Append(net, e)]
        ELSE IF swallows(result)
        THEN [err |-> "ok", rem |-> rem1, pushed |-> pushed, net |-> Append(net, e)]
        ELSE [err |-> "GitCommandError: push", rem |-> rem1,
              pushed |-> pushed, net |-> Append(Append(net, e), e)]

\* repo_push(repo, new_rev) for unit u when git push gives 'result':
\* [err, rem, pushed, net] are the exception leaving repo_push ("ok": none),
\* the remote, already_pushed_repository and the network log afterwards
repo_push(sim, rem, pushed, net, u, repo, new_rev, result) ==
    IF sim
    THEN [err |-> "ok", rem |-> rem, pushed |-> pushed, net |-> net]
    ELSE
    LET net1 == Append(net, [op |-> "push", url |-> repo.url, ref |-> new_rev.path,
                             unit |-> u, result |-> result])
        rem1 == RemoteAfterPush(rem, repo.url, new_rev, result)
    IN  IF result = "ok"
        THEN [err |-> "ok", rem |-> rem1,
              pushed |-> Append(pushed, <<u, new_rev>>), net |-> net1]
        ELSE IF swallows(result)
        THEN [err |-> "ok", rem |-> rem1, pushed |-> pushed, net |-> net1]
        ELSE [err |-> "GitCommandError: push", rem |-> rem1,
              pushed |-> pushed, net |-> net1]

-----------------------------------------------------------------------------
(* ReleaseManager.diag_repo_push                                           *)

\* what the operator may type at the prompt of the diagnostic mode: q, n or
\* anything else; without diagnostic mode nothing is asked
Answers(diag) == IF diag THEN {"q", "n", "y"} ELSE {"y"}

\* "push": the caller pushes, "skip": it does not, otherwise the exception
\* raised: the prompt prints active_branch.name, which raises TypeError on a
\* detached head, and the answer q ends in sys.exit(0)
diag_repo_push(diag, repo, answer) ==
    IF ~diag THEN "push"
    ELSE IF repo.handle.active_branch = None THEN "TypeError: detached head"
    ELSE IF answer = "q" THEN "SystemExit: 0"
    ELSE IF answer = "n" THEN "skip"
    ELSE "push"

-----------------------------------------------------------------------------
(* ReleaseManager.validate_remote_repositories_state *)

validate_remote_repositories_state_helper(rem, url, new_rev) ==
    IF startswith(new_rev, REF_BRANCH_PREFIX)
    THEN does_branch_exist_in_remote_repo(rem, url, new_rev, FALSE)
    ELSE IF startswith(new_rev, REF_TAG_PREFIX)
    THEN does_tag_exist_in_remote_repo(rem, url, new_rev, FALSE)
    ELSE TRUE

\* the list remotes_to_check: [url, rev, success_indication]
remotes_to_check(nr, mobjs) ==
    {[url |-> build_url_from_repo_name(ARM_MRR_REMOTE, k),
      rev |-> nr[EXTERNAL_SD_KEY_NAME][k][2],
      success_indication |-> FALSE] : k \in Keys(nr[EXTERNAL_SD_KEY_NAME])}
    \cup
    UNION {
      {[url |-> build_url_from_repo_name(
                    mobjs[f].remote_key_to_remote[mobjs[f].repo_name_to_proj[k].remote_key],
                    mobjs[f].repo_name_to_proj[k].full_name),
        rev |-> get_new_ref_from_new_revisions(nr, mobjs[f].file_name, k),
        success_indication |-> ~mobjs[f].repo_name_to_proj[k].is_arm_mrr] :
          k \in {n \in Keys(mobjs[f].repo_name_to_proj) :
                   get_new_ref_from_new_revisions(nr, mobjs[f].file_name, n) # None}} :
      f \in Keys(mobjs)}

\* a completed check whose result differs from its success indication
check_fails_Mutant(rem, worker_input) ==
    /\ ~worker_input.success_indication
    /\ validate_remote_repositories_state_helper(rem, worker_input.url, worker_input.rev)

check_fails(rem, worker_input) ==
    validate_remote_repositories_state_helper(rem, worker_input.url, worker_input.rev)
        # worker_input.success_indication

validate_remote_repositories_state(rem, nr, mobjs) ==
    IF \E worker_input \in remotes_to_check(nr, mobjs) : check_fails(rem, worker_input)
    THEN "ArgumentTypeError: remote state"
    ELSE "ok"

-----------------------------------------------------------------------------
(* ReleaseManager.validate_cross_dependencies, checks 1 and 2 *)

\* checks that ask for a name of the common scope in every manifest
cross_dependencies_Mutant(nr, mobjs) ==
    IF \E file_name \in Keys(nr) \ {EXTERNAL_SD_KEY_NAME, COMMON_SD_KEY_NAME} :
           file_name \notin Keys(mobjs)
    THEN "ValueError: main entry key"
    ELSE IF \E file_name \in Keys(nr) \ {EXTERNAL_SD_KEY_NAME} :
              \E repo_name \in Keys(nr[file_name]) :
                  IF file_name # COMMON_SD_KEY_NAME
                  THEN repo_name \notin Keys(mobjs[file_name].repo_name_to_proj)
                  ELSE \E f \in Keys(mobjs) :
                           repo_name \notin Keys(mobjs[f].repo_name_to_proj)
    THEN "ValueError: entry not found"
    ELSE "ok"

cross_dependencies(nr, mobjs) ==
    IF \E file_name \in Keys(nr) \ {EXTERNAL_SD_KEY_NAME, COMMON_SD_KEY_NAME} :
           file_name \notin Keys(mobjs)
    THEN "ValueError: main entry key"
    ELSE IF \E file_name \in Keys(nr) \ {EXTERNAL_SD_KEY_NAME} :
              \E repo_name \in Keys(nr[file_name]) :
                  IF file_name # COMMON_SD_KEY_NAME
                  THEN repo_name \notin Keys(mobjs[file_name].repo_name_to_proj)
                  ELSE \A f \in Keys(mobjs) :
                           repo_name \notin Keys(mobjs[f].repo_name_to_proj)
    THEN "ValueError: entry not found"
    ELSE "ok"

-----------------------------------------------------------------------------
(* ReleaseManager.clone_and_create_new_revisions: the list clone_data *)

tmp_dir_path == <<"tmp">>

\* clone_data without the test of proj.is_arm_mrr
clone_data_of_Mutant(nr, mobjs) ==
    {[repo_name |-> repo_name,
      remote    |-> ARM_MRR_REMOTE,
      prefix    |-> rsplit(repo_name)[1],
      name      |-> rsplit(repo_name)[2],
      base_path |-> tmp_dir_path,
      cur_rev   |-> nr[EXTERNAL_SD_KEY_NAME][repo_name][1],
      new_rev   |-> nr[EXTERNAL_SD_KEY_NAME][repo_name][2],
      sd_name   |-> EXTERNAL_SD_KEY_NAME] :
        repo_name \in Keys(nr[EXTERNAL_SD_KEY_NAME]) \ {MBL_MANIFEST_REPO_NAME}}
    \cup
    UNION {
      {[repo_name |-> mobjs[f].repo_name_to_proj[k].full_name,
        remote    |-> mobjs[f].remote_key_to_remote[mobjs[f].repo_name_to_proj[k].remote_key],
        prefix    |-> rsplit(mobjs[f].repo_name_to_proj[k].full_name)[1],
        name      |-> rsplit(mobjs[f].repo_name_to_proj[k].full_name)[2],
        base_path |-> tmp_dir_path \o <<"/">> \o mobjs[f].file_name,
        cur_rev   |-> mobjs[f].repo_name_to_proj[k].revision,
        new_rev   |-> get_new_ref_from_new_revisions(
                          nr, mobjs[f].file_name, mobjs[f].repo_name_to_proj[k].full_name),
        sd_name   |-> mobjs[f].file_name] :
          k \in {n \in Keys(mobjs[f].repo_name_to_proj) :
                   /\ get_new_ref_from_new_revisions(
                          nr, mobjs[f].file_name,
                          mobjs[f].repo_name_to_proj[n].full_name) # None}} :
      f \in Keys(mobjs)}

clone_data_of(nr, mobjs) ==
    {[repo_name |-> repo_name,
      remote    |-> ARM_MRR_REMOTE,
      prefix    |-> rsplit(repo_name)[1],
      name      |-> rsplit(repo_name)[2],
      base_path |-> tmp_dir_path,
      cur_rev   |-> nr[EXTERNAL_SD_KEY_NAME][repo_name][1],
      new_rev   |-> nr[EXTERNAL_SD_KEY_NAME][repo_name][2],
      sd_name   |-> EXTERNAL_SD_KEY_NAME] :
        repo_name \in Keys(nr[EXTERNAL_SD_KEY_NAME]) \ {MBL_MANIFEST_REPO_NAME}}
    \cup
    UNION {
      {[repo_name |-> mobjs[f].repo_name_to_proj[k].full_name,
        remote    |-> mobjs[f].remote_key_to_remote[mobjs[f].repo_name_to_proj[k].remote_key],
        prefix    |-> rsplit(mobjs[f].repo_name_to_proj[k].full_name)[1],
        name      |-> rsplit(mobjs[f].repo_name_to_proj[k].full_name)[2],
        base_path |-> tmp_dir_path \o <<"/">> \o mobjs[f].file_name,
        cur_rev   |-> mobjs[f].repo_name_to_proj[k].revision,
        new_rev   |-> get_new_ref_from_new_revisions(
                          nr, mobjs[f].file_name, mobjs[f].repo_name_to_proj[k].full_name),
        sd_name   |-> mobjs[f].file_name] :
          k \in {n \in Keys(mobjs[f].repo_name_to_proj) :
                   /\ mobjs[f].repo_name_to_proj[n].is_arm_mrr
                   /\ get_new_ref_from_new_revisions(
                          nr, mobjs[f].file_name,
                          mobjs[f].repo_name_to_proj[n].full_name) # None}} :
      f \in Keys(mobjs)}

\* a unit of work is identified by (worker_input[7], worker_input[0])
UnitOf(worker_input) == <<worker_input.sd_name, worker_input.repo_name>>

HubUnit == <<EXTERNAL_SD_KEY_NAME, MBL_MANIFEST_REPO_NAME>>

-----------------------------------------------------------------------------
(* ReleaseManager.update_mbl_linked_repositories_conf_helper: the rewrite  *)
(* of mbl-linked-repositories.conf.  A line is [kind, repo, branch,        *)
(* quotes, value]: kind "uri" is a line holding git@github.com/<repo>,     *)
(* branch its ;branch=<name>; option (None: no such option), quotes the    *)
(* number of double quotes of the line and value the text between them.    *)

\* one pass over the file for repo_name; st = [err, lines, is_changed, nlr]
RECURSIVE ConfPass(_, _, _, _)
ConfPass(st, i, repo_name, ext_repo) ==
    IF i > Len(st.lines) \/ st.err # "ok"
    THEN st
    ELSE
    LET line == st.lines[i] IN
    IF line.kind = "uri" /\ line.repo = repo_name
    THEN IF ext_repo.handle.active_branch = None
         THEN [st EXCEPT !.err = "TypeError: detached head"]
         ELSE ConfPass([st EXCEPT
                          \* line.replace(";{m};", ";branch={name};") finds no
                          \* ";m;" in ";branch=m;": the text stays as it is
                          !.is_changed = @ \/ (line.branch # None
                                  /\ line.branch # ext_repo.handle.active_branch),
                          !.nlr = TRUE],
                       i + 1, repo_name, ext_repo)
    ELSE IF st.nlr
    THEN IF line.quotes # 2
         THEN [st EXCEPT !.err = "SyntaxError: bad format"]
         ELSE ConfPass([st EXCEPT
                          !.lines[i].value =
                              IF line.value # active_branch_of(ext_repo).commit
                              THEN active_branch_of(ext_repo).commit ELSE @,
                          !.is_changed =
                              @ \/ line.value # active_branch_of(ext_repo).commit,
                          !.nlr = FALSE],
                       i + 1, repo_name, ext_repo)
    ELSE ConfPass(st, i + 1, repo_name, ext_repo)

RECURSIVE ConfRewrite(_, _, _, _)
ConfRewrite(st, names, d, heap) ==
    IF names = {} \/ st.err # "ok"
    THEN st
    ELSE LET repo_name == CHOOSE n \in names : TRUE
         IN  ConfRewrite(ConfPass([st EXCEPT !.nlr = FALSE], 1, repo_name,
                                  heap[d[repo_name]]),
                         names \ {repo_name}, d, heap)

\* [err, lines, is_changed] of the rewrite loop of the helper
conf_rewrite(lines, nr, d, heap) ==
    ConfRewrite([err |-> "ok", lines |-> lines, is_changed |-> FALSE, nlr |-> FALSE],
                Keys(nr[EXTERNAL_SD_KEY_NAME])
                    \ {MBL_MANIFEST_REPO_NAME, MBL_LINKED_REPOSITORIES_REPO_NAME},
                d, heap)

-----------------------------------------------------------------------------
(* State *)

VARIABLES
    input_file,     \* the text of the input file, as ordered pairs
    simulate,       \* args.simulate
    diagnostic_mode,            \* args.diagnostic_mode
    remove_temporary_folder,    \* args.remove_temporary_folder
    tmp_dir_exists, \* the temporary folder tmp_dir_path is on disk
    remote_checks,  \* the checks validate_remote_repositories_state submitted
    xml_files,      \* the *.xml files of the mbl-manifest working copy
    conf_lines,     \* mbl-linked-repositories.conf as the meta-mbl remote holds it
    conf_written,   \* the file as rewritten in a meta-mbl working copy, by unit
    remote,         \* the refs of the remote repositories
    pc,             \* the position of the main thread in _main
    exc,            \* the exception propagating out of _main (None: none)
    new_revisions,
    mbl_manifest_clone_ref,
    manifest_file_name_to_obj,
    external_repo_name_to_cloned_repo,
    repos,          \* the GitClonedRepository objects, by unit of work
    clone_data,
    wstate,         \* the position of each worker thread
    wnew,           \* the reference object each worker created
    werr,           \* the exception each worker raised
    collected,      \* the futures as_completed has yielded
    conf_todo,      \* the helper calls update_mbl_linked_repositories_conf has left
    already_pushed_repository,
    summary_logs,
    printed,        \* what print_summary printed
    completed,
    net_log,        \* every clone, push and deleting push, in order
    net_at_abort,   \* Len(net_log) when the worker phase aborted (-1: it has not)
    exit_status

vars == <<input_file, simulate, diagnostic_mode, remove_temporary_folder,
          tmp_dir_exists, remote_checks, xml_files, conf_lines, conf_written, remote, pc, exc,
          new_revisions, mbl_manifest_clone_ref, manifest_file_name_to_obj,
          external_repo_name_to_cloned_repo, repos, clone_data, wstate, wnew,
          werr, collected, conf_todo, already_pushed_repository, summary_logs,
          printed, completed, net_log, net_at_abort, exit_status>>

input_vars == <<input_file, simulate, diagnostic_mode, remove_temporary_folder>>

\* what only validate_cross_dependencies and __exit__ change
side_vars == <<tmp_dir_exists, remote_checks>>

\* the dictionary the input file denotes
input_doc ==
    LET top == dict_of(input_file.pairs) IN [k \in Keys(top) |-> dict_of(top[k])]

-----------------------------------------------------------------------------
(* The repositories, revisions and files of the checked configurations *)

MBL_CORE == <<"armmbed", "/", "mbl-core">>
PROJ_P == <<"armmbed", "/", "mbl-p">>
PROJ_Q == <<"other", "/", "q">>
OTHER_CORE == <<"other", "/", "mbl-core">>

V1 == REF_BRANCH_PREFIX \o <<"v1">>
V2 == REF_BRANCH_PREFIX \o <<"v2">>
V3 == REF_BRANCH_PREFIX \o <<"v3">>
FX == REF_BRANCH_PREFIX \o <<"feature", "/", "x">>
T1 == REF_TAG_PREFIX \o <<"t1">>
T2 == REF_TAG_PREFIX \o <<"t2">>
H1 == <<"c0ffee40">>
H2 == <<"deadbeef40">>
\* a commit no remote repository holds
H3 == <<"abad1dea40">>
\* 40 characters int(_, 16) parses: the prefix 0x and 38 hexadecimal digits
HX == <<"0x", "c0ffee38">>
SHORT_V2 == <<"v2">>

F1 == <<"f1">>
F2 == <<"f2">>
\* no manifest file has this name
F3 == <<"f3">>

GITHUB_FETCH == ARM_MRR_REMOTE

UrlOf(repo_name) == build_url_from_repo_name(ARM_MRR_REMOTE, repo_name)

Project(name, revision, upstream) ==
    [name |-> name, remote |-> MRR_MANIFEST_REMOTE_KEY,
     revision |-> revision, upstream |-> upstream]

NoDefault == [present |-> FALSE, revision |-> None, children |-> 0]

Manifest(projects) ==
    [default  |-> NoDefault,
     remotes  |-> (MRR_MANIFEST_REMOTE_KEY :> GITHUB_FETCH),
     projects |-> projects]

\* the manifest files of the runs: f1 lists mbl-p and other/q, f2 lists
\* mbl-p and meta-mbl
RunManifests ==
    (F1 :> Manifest(<<Project(PROJ_P, None, None), Project(PROJ_Q, <<"v1">>, None)>>))
    @@
    (F2 :> Manifest(<<Project(PROJ_P, <<"v1">>, <<"up">>),
                      Project(MBL_LINKED_REPOSITORIES_REPO_NAME, None, None)>>))

PROJ_AQ == <<"armmbed", "/", "q">>

\* f1 lists mbl-p twice, with different revisions
DupFullManifests ==
    (F1 :> Manifest(<<Project(PROJ_P, None, None), Project(PROJ_P, <<"v1">>, None),
                      Project(PROJ_Q, <<"v1">>, None)>>))
    @@
    (F2 :> RunManifests[F2])

\* f1 lists two projects with the short name q: armmbed/q and other/q
DupShortManifests ==
    (F1 :> Manifest(<<Project(PROJ_P, None, None), Project(PROJ_AQ, None, None),
                      Project(PROJ_Q, <<"v1">>, None)>>))
    @@
    (F2 :> RunManifests[F2])

PrepManifests == {RunManifests, DupFullManifests, DupShortManifests}

RunConf ==
    <<[kind |-> "uri", repo |-> MBL_CORE, branch |-> <<"v1">>, quotes |-> 2,
       value |-> None],
      [kind |-> "srcrev", repo |-> None, branch |-> None, quotes |-> 2,
       value |-> H1],
      [kind |-> "other", repo |-> None, branch |-> None, quotes |-> 0,
       value |-> None]>>

AllRepos == {MBL_MANIFEST_REPO_NAME, MBL_LINKED_REPOSITORIES_REPO_NAME,
             MBL_CORE, PROJ_P, PROJ_Q, OTHER_CORE}

\* every repository has master and tag t1 at commit H1 and branch v1 at H2
BaseRemote ==
    [k \in {<<UrlOf(r), ref>> : r \in AllRepos,
                                ref \in {REF_BRANCH_PREFIX \o MASTER, V1, T1}} |->
        [commit |-> IF k[2] = V1 THEN H2 ELSE H1, by |-> "init"]]

\* refs that may be on a remote before the run starts
PreCandidates == {<<UrlOf(MBL_CORE), V2>>, <<UrlOf(PROJ_Q), T2>>}

RemoteWith(pre) ==
    [k \in pre |-> [commit |-> H1, by |-> "init"]] @@ BaseRemote

-----------------------------------------------------------------------------
(* Input documents *)

SD(key, d) == key :> d

Pair(a, b) == <<a, b>>

\* the input documents of the full runs
RunDocs ==
    { SD(EXTERNAL_SD_KEY_NAME,
         (MBL_MANIFEST_REPO_NAME :> Pair(V1, V2)) @@ (MBL_CORE :> Pair(V1, V2)))
        @@ SD(F1, PROJ_P :> V2),
      SD(EXTERNAL_SD_KEY_NAME, MBL_MANIFEST_REPO_NAME :> Pair(V1, T2))
        @@ SD(COMMON_SD_KEY_NAME, PROJ_P :> T2),
      SD(EXTERNAL_SD_KEY_NAME,
         (MBL_MANIFEST_REPO_NAME :> Pair(V1, V2))
         @@ (MBL_LINKED_REPOSITORIES_REPO_NAME :> Pair(V1, V2))
         @@ (MBL_CORE :> Pair(V1, V2)))
        @@ SD(COMMON_SD_KEY_NAME, PROJ_Q :> H1),
      SD(EXTERNAL_SD_KEY_NAME,
         (MBL_MANIFEST_REPO_NAME :> Pair(V1, V2))
         @@ (MBL_LINKED_REPOSITORIES_REPO_NAME :> Pair(V1, T2))
         @@ (MBL_CORE :> Pair(T1, T2))),
      SD(EXTERNAL_SD_KEY_NAME, MBL_MANIFEST_REPO_NAME :> Pair(V1, V2))
        @@ SD(F1, PROJ_P :> V2) @@ SD(F2, PROJ_P :> V3)
        @@ SD(COMMON_SD_KEY_NAME, PROJ_Q :> T2),
      SD(EXTERNAL_SD_KEY_NAME, MBL_MANIFEST_REPO_NAME :> Pair(V1, V2)),
      SD(EXTERNAL_SD_KEY_NAME,
         (MBL_MANIFEST_REPO_NAME :> Pair(V1, V2)) @@ (MBL_CORE :> Pair(V1, T2)))
        @@ SD(F1, (PROJ_P :> V2) @@ (PROJ_Q :> T2))
        @@ SD(F2, MBL_LINKED_REPOSITORIES_REPO_NAME :> V3),
      SD(EXTERNAL_SD_KEY_NAME, MBL_MANIFEST_REPO_NAME :> Pair(V1, H1)),
      SD(EXTERNAL_SD_KEY_NAME,
         (MBL_MANIFEST_REPO_NAME :> Pair(V1, V2)) @@ (MBL_CORE :> Pair(V1, V2)))
        @@ SD(F1, PROJ_Q :> H3),
      SD(EXTERNAL_SD_KEY_NAME,
         (MBL_MANIFEST_REPO_NAME :> Pair(V1, V2))
         @@ (MBL_LINKED_REPOSITORIES_REPO_NAME :> Pair(V1, V2)))
        @@ SD(F1, PROJ_P :> V2),
      SD(EXTERNAL_SD_KEY_NAME,
         (MBL_MANIFEST_REPO_NAME :> Pair(V1, V2))
         @@ (MBL_LINKED_REPOSITORIES_REPO_NAME :> Pair(V1, T2))) }

\* every dictionary over a subset of 'keys' with values in 'vals'
Dicts(keys, vals) == UNION {[D -> vals] : D \in SUBSET keys}

\* a scope that is absent, or present with one of the dictionaries ds
OptSD(key, ds) == {EmptyDict} \cup {SD(key, d) : d \in ds}

\* the input documents of the validation runs: valid and invalid ones
WideDocs ==
    {e @@ c @@ f1 @@ f2 :
        e  \in OptSD(EXTERNAL_SD_KEY_NAME,
                     {h @@ x : h \in Dicts({MBL_MANIFEST_REPO_NAME},
                                           {Pair(V1, V2), Pair(V1, V1), <<V1>>,
                                            Pair(V1, SHORT_V2), Pair(V1, T2)}),
                               x \in Dicts({PROJ_P, MBL_CORE}, {Pair(V1, V2)})}),
        c  \in OptSD(COMMON_SD_KEY_NAME,
                     {p @@ q : p \in Dicts({PROJ_P}, {V2}),
                               q \in Dicts({PROJ_Q}, {T2, H3, HX})}),
        f1 \in OptSD(F1, {p @@ q : p \in Dicts({PROJ_P}, {V2, V3}),
                                   q \in Dicts({PROJ_Q}, {T1})}),
        f2 \in OptSD(F2, Dicts({PROJ_P}, {V2, V3, REF_BRANCH_PREFIX \o MASTER}))}

\* documents that pass parse_and_validate_input_file and name a file that is
\* no manifest (f3), a project that is not in the manifest of its scope
\* (other/q in f2), a project of no manifest (mbl-core), a project of one
\* manifest only under the common scope (meta-mbl), and projects of the
\* manifests of their scopes
CrossDocs ==
    { SD(EXTERNAL_SD_KEY_NAME, MBL_MANIFEST_REPO_NAME :> Pair(V1, V2)) @@ d :
        d \in { SD(F3, PROJ_P :> V2),
                SD(F1, PROJ_P :> V2) @@ SD(F3, PROJ_P :> V2),
                SD(F2, PROJ_Q :> T1),
                SD(F1, PROJ_Q :> T1) @@ SD(F2, PROJ_Q :> T1),
                SD(COMMON_SD_KEY_NAME, MBL_CORE :> V2),
                SD(COMMON_SD_KEY_NAME, (MBL_CORE :> V2) @@ (PROJ_P :> V2)),
                SD(COMMON_SD_KEY_NAME, MBL_LINKED_REPOSITORIES_REPO_NAME :> V3),
                SD(F1, PROJ_P :> V2)
                    @@ SD(F2, MBL_LINKED_REPOSITORIES_REPO_NAME :> V3) } }

\* documents whose target for mbl-p is the default branch of the manifests:
\* f1 lists mbl-p without revision attribute, f2 with the revision v1
DefaultTargetDocs ==
    { SD(EXTERNAL_SD_KEY_NAME, MBL_MANIFEST_REPO_NAME :> Pair(V1, V2)) @@ d :
        d \in { SD(F1, PROJ_P :> REF_BRANCH_PREFIX \o MASTER),
                SD(COMMON_SD_KEY_NAME, PROJ_P :> REF_BRANCH_PREFIX \o MASTER) } }

\* the (key, value) pairs of a dictionary, in some order
ItemsOf(d) ==
    LET ks == SetToSeq(Keys(d)) IN [i \in 1..Len(ks) |-> <<ks[i], d[ks[i]]>>]

\* an input file holding the document doc
FileOf(doc) ==
    [legal |-> TRUE, pairs |-> ItemsOf([k \in Keys(doc) |-> ItemsOf(doc[k])])]

HubPairs == <<EXTERNAL_SD_KEY_NAME, <<Pair(MBL_MANIFEST_REPO_NAME, Pair(V1, V2))>>>>

\* input files with a key that occurs twice in one object: the top-level key
\* f1, the nested key mbl-p, the nested key mbl-manifest, and a document
\* without external scope that holds the key f1 twice
DuplicateKeyFiles ==
    { [legal |-> TRUE,
       pairs |-> <<HubPairs, <<F1, <<Pair(PROJ_P, V2)>>>>, <<F1, <<Pair(PROJ_Q, T1)>>>>>>],
      [legal |-> TRUE,
       pairs |-> <<HubPairs, <<F1, <<Pair(PROJ_P, V2), Pair(PROJ_P, V3)>>>>>>],
      [legal |-> TRUE,
       pairs |-> <<<<EXTERNAL_SD_KEY_NAME,
                     <<Pair(MBL_MANIFEST_REPO_NAME, Pair(V1, V2)),
                       Pair(MBL_MANIFEST_REPO_NAME, Pair(V1, T2))>>>>>>],
      [legal |-> TRUE,
       pairs |-> <<<<F1, <<Pair(PROJ_P, V2)>>>>, <<F1, <<Pair(PROJ_P, SHORT_V2)>>>>>>] }

\* a file whose text is not JSON
IllegalJsonFile == [legal |-> FALSE, pairs |-> <<>>]

-----------------------------------------------------------------------------
(* Initial states: the state after ReleaseManager.__init__ *)

InitRun ==
    /\ pc = "parse_and_validate_input_file"
    /\ exc = NoException
    /\ new_revisions = EmptyDict
    /\ mbl_manifest_clone_ref = <<>>
    /\ manifest_file_name_to_obj = EmptyDict
    /\ external_repo_name_to_cloned_repo = EmptyDict
    /\ repos = EmptyDict
    /\ clone_data = {}
    /\ wstate = EmptyDict
    /\ wnew = EmptyDict
    /\ werr = EmptyDict
    /\ collected = {}
    /\ conf_todo = <<>>
    /\ conf_written = EmptyDict
    /\ already_pushed_repository = <<>>
    /\ summary_logs = <<>>
    /\ printed = <<>>
    /\ completed = FALSE
    /\ net_log = <<>>
    /\ net_at_abort = -1
    /\ exit_status = "running"
    /\ tmp_dir_exists = TRUE
    /\ remote_checks = {}

Init ==
    /\ input_file \in {FileOf(doc) : doc \in RunDocs}
    /\ simulate \in BOOLEAN
    /\ diagnostic_mode = FALSE
    /\ remove_temporary_folder = FALSE
    /\ xml_files = RunManifests
    /\ conf_lines = RunConf
    /\ \E pre \in SUBSET PreCandidates : remote = RemoteWith(pre)
    /\ InitRun

\* the documents of the runs with options: the first has a file scope, the
\* second has meta-mbl and mbl-core under the external scope
OptionDocs ==
    { SD(EXTERNAL_SD_KEY_NAME,
         (MBL_MANIFEST_REPO_NAME :> Pair(V1, V2)) @@ (MBL_CORE :> Pair(V1, V2)))
        @@ SD(F1, PROJ_P :> V2),
      SD(EXTERNAL_SD_KEY_NAME,
         (MBL_MANIFEST_REPO_NAME :> Pair(V1, V2))
         @@ (MBL_LINKED_REPOSITORIES_REPO_NAME :> Pair(V1, V2))
         @@ (MBL_CORE :> Pair(V1, V2))) }

\* a manifest with a <default> element
ManifestWithDefault(default, projects) ==
    [default  |-> default,
     remotes  |-> (MRR_MANIFEST_REMOTE_KEY :> GITHUB_FETCH),
     projects |-> projects]

\* <default revision="v1" .../> without child elements, the same element
\* with a child element, and a <default> element without revision
DefaultElements ==
    { [present |-> TRUE, revision |-> <<"v1">>, children |-> 0],
      [present |-> TRUE, revision |-> <<"v1">>, children |-> 1],
      [present |-> TRUE, revision |-> None, children |-> 1],
      [present |-> TRUE, revision |-> None, children |-> 0] }

\* the manifests of the runs about the rewrite: the manifests of the full
\* runs, manifests whose projects carry an upstream attribute before and
\* after a project with a target, and f1 with each <default> element
RewriteManifests ==
    { RunManifests,
      (F1 :> Manifest(<<Project(PROJ_P, None, None),
                        Project(PROJ_Q, <<"v1">>, <<"up">>)>>))
      @@
      (F2 :> Manifest(<<Project(PROJ_P, <<"v1">>, <<"up">>),
                        Project(MBL_LINKED_REPOSITORIES_REPO_NAME, <<"v1">>, <<"up">>)>>)) }
    \cup
    { (F1 :> ManifestWithDefault(dflt, <<Project(PROJ_P, None, None),
                                        Project(PROJ_Q, <<"v1">>, None)>>))
      @@ (F2 :> RunManifests[F2]) : dflt \in DefaultElements }

\* the documents of the runs about the rewrite
RewriteDocs ==
    { SD(EXTERNAL_SD_KEY_NAME, MBL_MANIFEST_REPO_NAME :> Pair(V1, V2)) @@ d :
        d \in { SD(F1, PROJ_P :> V2),
                SD(F1, PROJ_Q :> T2),
                SD(F1, PROJ_P :> V1),
                SD(F1, PROJ_P :> REF_BRANCH_PREFIX \o MASTER),
                SD(F2, MBL_LINKED_REPOSITORIES_REPO_NAME :> V3),
                SD(COMMON_SD_KEY_NAME, PROJ_P :> V2),
                SD(F2, (PROJ_P :> H1)) } }
    \cup { SD(EXTERNAL_SD_KEY_NAME, MBL_MANIFEST_REPO_NAME :> Pair(V1, V2)) }

InitRewrite ==
    /\ input_file \in {FileOf(doc) : doc \in RewriteDocs}
    /\ simulate = FALSE
    /\ diagnostic_mode = FALSE
    /\ remove_temporary_folder = FALSE
    /\ xml_files \in RewriteManifests
    /\ conf_lines = RunConf
    /\ remote = RemoteWith({})
    /\ InitRun

\* the documents of the runs about the clones: the first names two external
\* repositories with the short name mbl-core, the third asks for a branch
\* of other/q, which is not Arm-managed and has that branch on its remote,
\* the fourth asks for the branch feature/x, whose name holds a "/"
PathDocs ==
    { SD(EXTERNAL_SD_KEY_NAME,
         (MBL_MANIFEST_REPO_NAME :> Pair(V1, V2)) @@ (MBL_CORE :> Pair(V1, V2))
         @@ (OTHER_CORE :> Pair(V1, V2))),
      SD(EXTERNAL_SD_KEY_NAME,
         (MBL_MANIFEST_REPO_NAME :> Pair(V1, V2))
         @@ (MBL_LINKED_REPOSITORIES_REPO_NAME :> Pair(V1, V2))
         @@ (MBL_CORE :> Pair(V1, V2))),
      SD(EXTERNAL_SD_KEY_NAME, MBL_MANIFEST_REPO_NAME :> Pair(V1, V2))
        @@ SD(F1, (PROJ_P :> V2) @@ (PROJ_Q :> V2)),
      SD(EXTERNAL_SD_KEY_NAME,
         (MBL_MANIFEST_REPO_NAME :> Pair(V1, V2)) @@ (MBL_CORE :> Pair(V1, FX)))
        @@ SD(F1, PROJ_P :> FX) }

InitPaths ==
    /\ input_file \in {FileOf(doc) : doc \in PathDocs}
    /\ simulate \in BOOLEAN
    /\ diagnostic_mode = FALSE
    /\ remove_temporary_folder = FALSE
    /\ xml_files = RunManifests
    /\ conf_lines = RunConf
    /\ remote = RemoteWith({<<UrlOf(PROJ_Q), V2>>})
    /\ InitRun

InitOptions ==
    /\ input_file \in {FileOf(doc) : doc \in OptionDocs}
    /\ simulate \in BOOLEAN
    /\ diagnostic_mode \in BOOLEAN
    /\ remove_temporary_folder \in BOOLEAN
    /\ xml_files = RunManifests
    /\ conf_lines = RunConf
    /\ remote = RemoteWith({})
    /\ InitRun

\* the runs up to the start of the worker phase, over the wide inputs
InitPrep ==
    /\ input_file \in {FileOf(doc) : doc \in WideDocs \cup CrossDocs \cup DefaultTargetDocs}
                       \cup DuplicateKeyFiles \cup {IllegalJsonFile}
    /\ simulate = FALSE
    /\ diagnostic_mode = FALSE
    /\ remove_temporary_folder = FALSE
    /\ xml_files \in PrepManifests
    /\ conf_lines = RunConf
    /\ \E pre \in SUBSET PreCandidates : remote = RemoteWith(pre)
    /\ InitRun

-----------------------------------------------------------------------------
(* _main: parse_and_validate_input_file *)

Raise(e) ==
    /\ exc' = e
    /\ pc' = "__exit__"

ParseInput ==
    /\ pc = "parse_and_validate_input_file"
    /\ LET loaded == json_loads(input_file)
           nrd    == loaded.d
           \* JSONDecodeError is caught and answered with sys.exit(-1); the
           \* ValueError of the hook is not a JSONDecodeError
           r      == IF loaded.err = "JSONDecodeError" THEN "SystemExit: -1"
                     ELSE IF loaded.err # "ok" THEN loaded.err
                     ELSE parse_and_validate_input_file(nrd)
       IN
       /\ mbl_manifest_clone_ref' =
              IF r \in {"ok", "ValueError: key clash"}
              THEN nrd[EXTERNAL_SD_KEY_NAME][MBL_MANIFEST_REPO_NAME][1]
              ELSE mbl_manifest_clone_ref
       /\ IF r = "ok"
          THEN /\ new_revisions' = nrd
               /\ pc' = "process_manifest_files"
               /\ exc' = exc
          ELSE /\ new_revisions' = new_revisions
               /\ Raise(r)
    /\ UNCHANGED <<input_vars, side_vars, net_at_abort, xml_files, conf_lines, conf_written, remote,
                   manifest_file_name_to_obj, external_repo_name_to_cloned_repo,
                   repos, clone_data, wstate, wnew, werr, collected, conf_todo,
                   already_pushed_repository, summary_logs, printed, completed,
                   net_log, exit_status>>

-----------------------------------------------------------------------------
(* _main: process_manifest_files *)

CloneEntry(u, repo) ==
    [op |-> "clone", url |-> repo.url, ref |-> repo.checkout_rev,
     unit |-> u, result |-> repo.err]

RECURSIVE FileLogs(_)
FileLogs(names) ==
    IF names = <<>> THEN <<>>
    ELSE <<[h |-> SUMMARY_H_BKP, repo |-> MBL_MANIFEST_REPO_NAME,
            name |-> Head(names), commit |-> None],
           [h |-> SUMMARY_H_MODIFY_FILE, repo |-> MBL_MANIFEST_REPO_NAME,
            name |-> Head(names), commit |-> None]>> \o FileLogs(Tail(names))

\* the orders in which glob.glob may list the files
Orders(S) ==
    {order \in [1..Cardinality(S) -> S] : \A x \in S : \E i \in DOMAIN order : order[i] = x}

\* the loop 'for file_path in xml_files' over the files still to parse;
\* st = [err, mobjs, xml, logs]: the exception raised, the objects stored in
\* manifest_file_name_to_obj, the files on disk and the summary entries
RECURSIVE FileLoop(_, _, _)
FileLoop(st, order, nr) ==
    IF order = <<>> \/ st.err # "ok"
    THEN st
    ELSE LET f == Head(order)
             r == parse_manifest_file(st.xml[f], f, nr)
         IN  IF r.err # "ok"
             THEN [st EXCEPT !.err = r.err]
             ELSE FileLoop(
                      [err   |-> "ok",
                       mobjs |-> (f :> r.rmf) @@ st.mobjs,
                       xml   |-> IF r.is_changed
                                 THEN [st.xml EXCEPT ![f] = r.xml] ELSE st.xml,
                       logs  |-> IF r.is_changed
                                 THEN st.logs \o FileLogs(<<f>>) ELSE st.logs],
                      Tail(order), nr)

ProcessManifestFiles ==
    /\ pc = "process_manifest_files"
    /\ LET nrd  == new_revisions
           repo == GitClonedRepository(remote, ARM_MRR_REMOTE,
                       ARM_MRR_REPO_NAME_PREFIX, MBL_MANIFEST_REPO_SHORT_NAME,
                       tmp_dir_path, mbl_manifest_clone_ref)
           made == create_new_revision(repo,
                       nrd[EXTERNAL_SD_KEY_NAME][MBL_MANIFEST_REPO_NAME][2])
       IN
       /\ net_log' = Append(net_log, CloneEntry(HubUnit, repo))
       /\ IF repo.err # "ok"
          THEN /\ Raise(repo.err)
               /\ UNCHANGED <<repos, wnew, external_repo_name_to_cloned_repo,
                              manifest_file_name_to_obj, xml_files, summary_logs>>
          ELSE IF made.err # "ok"
          THEN /\ Raise(made.err)
               /\ repos' = (HubUnit :> made.repo) @@ repos
               /\ UNCHANGED <<wnew, external_repo_name_to_cloned_repo,
                              manifest_file_name_to_obj, xml_files, summary_logs>>
          ELSE /\ repos' = (HubUnit :> made.repo) @@ repos
               /\ wnew' = (HubUnit :> made.new_rev) @@ wnew
               /\ external_repo_name_to_cloned_repo' =
                      (MBL_MANIFEST_REPO_NAME :> HubUnit)
                          @@ external_repo_name_to_cloned_repo
               /\ \E order \in Orders(Keys(xml_files)) :
                      LET st == FileLoop([err |-> "ok",
                                          mobjs |-> manifest_file_name_to_obj,
                                          xml |-> xml_files,
                                          logs |-> summary_logs \o made.log],
                                         order, nrd)
                      IN  /\ manifest_file_name_to_obj' = st.mobjs
                          /\ xml_files' = st.xml
                          /\ summary_logs' = st.logs
                          /\ IF st.err # "ok"
                             THEN Raise(st.err)
                             ELSE pc' = "validate_cross_dependencies" /\ exc' = exc
    /\ UNCHANGED <<input_vars, side_vars, net_at_abort, conf_lines, conf_written, remote, new_revisions,
                   mbl_manifest_clone_ref, clone_data, wstate, werr, collected,
                   conf_todo, already_pushed_repository, printed, completed,
                   exit_status>>

-----------------------------------------------------------------------------
(* _main: validate_cross_dependencies, which ends with                     *)
(* validate_remote_repositories_state.  timeout: as_completed ran into     *)
(* MAX_TMO_SEC before every check had completed.                           *)

ValidateCrossDependencies ==
    /\ pc = "validate_cross_dependencies"
    /\ LET r == cross_dependencies(new_revisions, manifest_file_name_to_obj) IN
       IF r # "ok"
       THEN Raise(r) /\ remote_checks' = remote_checks
       ELSE \E timeout \in BOOLEAN :
              LET v == validate_remote_repositories_state(
                           remote, new_revisions, manifest_file_name_to_obj)
              IN  /\ remote_checks' =
                         remotes_to_check(new_revisions, manifest_file_name_to_obj)
                  /\ IF timeout
                     THEN Raise("TimeoutError")
                     ELSE IF v # "ok"
                     THEN Raise(v)
                     ELSE pc' = "clone_and_create_new_revisions" /\ exc' = exc
    /\ UNCHANGED <<input_vars, tmp_dir_exists, net_at_abort, xml_files, conf_lines, conf_written, remote, new_revisions,
                   mbl_manifest_clone_ref, manifest_file_name_to_obj,
                   external_repo_name_to_cloned_repo, repos, clone_data, wstate,
                   wnew, werr, collected, conf_todo, already_pushed_repository,
                   summary_logs, printed, completed, net_log, exit_status>>

-----------------------------------------------------------------------------
(* _main: clone_and_create_new_revisions.  The executor is created with    *)
(* max_workers=len(clone_data), which raises ValueError for 0; every       *)
(* worker is submitted at once.                                            *)

Units == {UnitOf(w) : w \in clone_data}

InputOf(u) == CHOOSE w \in clone_data : UnitOf(w) = u

Finished(u) == wstate[u] \in {"done", "failed"}

CloneSubmit ==
    /\ pc = "clone_and_create_new_revisions"
    /\ LET cd == clone_data_of(new_revisions, manifest_file_name_to_obj) IN
       /\ clone_data' = cd
       /\ IF cd = {}
          THEN /\ Raise("ValueError: max_workers")
               /\ UNCHANGED <<wstate, werr>>
          ELSE /\ wstate' = [u \in {UnitOf(w) : w \in cd} |-> "submitted"]
               /\ werr' = [u \in {UnitOf(w) : w \in cd} |-> NoException]
               /\ pc' = "as_completed"
               /\ exc' = exc
    /\ UNCHANGED <<input_vars, side_vars, net_at_abort, xml_files, conf_lines, conf_written, remote,
                   new_revisions, mbl_manifest_clone_ref,
                   manifest_file_name_to_obj, external_repo_name_to_cloned_repo,
                   repos, wnew, collected, conf_todo, already_pushed_repository,
                   summary_logs, printed, completed, net_log, exit_status>>

(* create_and_update_new_revisions_worker in a worker thread: the clone *)
WorkerClone(u) ==
    /\ u \in Keys(wstate)
    /\ wstate[u] = "submitted"
    /\ LET w    == InputOf(u)
           made == GitClonedRepository(remote, w.remote, w.prefix, w.name,
                                       w.base_path, w.cur_rev)
           repo == IF made.err = "ok" /\ dest_occupied(repos, made.clone_dest_path)
                   THEN [made EXCEPT !.err = "GitCommandError: clone",
                                     !.handle = [made.handle EXCEPT
                                                   !.err = "GitCommandError: clone"]]
                   ELSE made
       IN  /\ net_log' = Append(net_log, CloneEntry(u, repo))
           /\ IF repo.err # "ok"
              THEN /\ wstate' = [wstate EXCEPT ![u] = "failed"]
                   /\ werr' = [werr EXCEPT ![u] = repo.err]
                   /\ repos' = repos
              ELSE /\ wstate' = [wstate EXCEPT ![u] = "cloned"]
                   /\ werr' = werr
                   /\ repos' = (u :> repo) @@ repos
    /\ UNCHANGED <<input_vars, side_vars, net_at_abort, xml_files, conf_lines, conf_written, remote, pc,
                   exc, new_revisions, mbl_manifest_clone_ref,
                   manifest_file_name_to_obj, external_repo_name_to_cloned_repo,
                   clone_data, wnew, collected, conf_todo,
                   already_pushed_repository, summary_logs, printed, completed,
                   exit_status>>

(* the worker creates the branch or tag *)
WorkerCreate(u) ==
    /\ u \in Keys(wstate)
    /\ wstate[u] = "cloned"
    /\ LET made == create_new_revision(repos[u], InputOf(u).new_rev) IN
       IF made.err # "ok"
       THEN /\ wstate' = [wstate EXCEPT ![u] = "failed"]
            /\ werr' = [werr EXCEPT ![u] = made.err]
            /\ UNCHANGED <<repos, wnew, summary_logs>>
       ELSE /\ wstate' = [wstate EXCEPT ![u] = "created"]
            /\ werr' = werr
            /\ repos' = [repos EXCEPT ![u] = made.repo]
            /\ wnew' = (u :> made.new_rev) @@ wnew
            /\ summary_logs' = summary_logs \o made.log
    /\ UNCHANGED <<input_vars, side_vars, net_at_abort, xml_files, conf_lines, conf_written, remote, pc,
                   exc, new_revisions, mbl_manifest_clone_ref,
                   manifest_file_name_to_obj, external_repo_name_to_cloned_repo,
                   clone_data, collected, conf_todo, already_pushed_repository,
                   printed, completed, net_log, exit_status>>

\* the PUSH line of the summary: clone path, active branch name and url
PushLog(repo) ==
    [h |-> SUMMARY_H_PUSH, path |-> repo.clone_dest_path,
     name |-> repo.handle.active_branch, url |-> repo.url, commit |-> None]

\* the PUSH line of mbl-manifest and meta-mbl, which adds the new commit hash
CommitPushLog(repo) ==
    [PushLog(repo) EXCEPT !.commit = active_branch_of(repo).commit]

(* the worker pushes the new revision, unless the repository is        *)
(* mbl-manifest or meta-mbl, and returns                               *)
WorkerPush(u) ==
    /\ u \in Keys(wstate)
    /\ wstate[u] = "created"
    /\ IF worker_pushes(repos[u])
       THEN \E answer \in Answers(diagnostic_mode) :
            LET dg == diag_repo_push(diagnostic_mode, repos[u], answer) IN
            IF dg = "skip"
            THEN /\ wstate' = [wstate EXCEPT ![u] = "done"]
                 /\ UNCHANGED <<remote, already_pushed_repository, net_log, werr,
                                summary_logs>>
            ELSE IF dg # "push"
            THEN /\ wstate' = [wstate EXCEPT ![u] = "failed"]
                 /\ werr' = [werr EXCEPT ![u] = dg]
                 /\ UNCHANGED <<remote, already_pushed_repository, net_log,
                                summary_logs>>
            ELSE
            \E result \in PushResults(remote, repos[u].url, wnew[u].path) :
              LET rp == repo_push(simulate, remote, already_pushed_repository,
                                  net_log, u, repos[u], wnew[u], result)
                  e  == IF rp.err # "ok" THEN rp.err
                        ELSE IF repos[u].handle.active_branch = None
                        THEN "TypeError: detached head"
                        ELSE "ok"
              IN  /\ remote' = rp.rem
                  /\ already_pushed_repository' = rp.pushed
                  /\ net_log' = rp.net
                  /\ IF e # "ok"
                     THEN /\ wstate' = [wstate EXCEPT ![u] = "failed"]
                          /\ werr' = [werr EXCEPT ![u] = e]
                          /\ summary_logs' = summary_logs
                     ELSE /\ wstate' = [wstate EXCEPT ![u] = "done"]
                          /\ werr' = werr
                          /\ summary_logs' = Append(summary_logs, PushLog(repos[u]))
       ELSE /\ wstate' = [wstate EXCEPT ![u] = "done"]
            /\ UNCHANGED <<remote, already_pushed_repository, net_log, werr,
                           summary_logs>>
    /\ UNCHANGED <<input_vars, side_vars, net_at_abort, xml_files, conf_lines, conf_written, pc, exc,
                   new_revisions, mbl_manifest_clone_ref,
                   manifest_file_name_to_obj, external_repo_name_to_cloned_repo,
                   repos, clone_data, wnew, collected, conf_todo, printed,
                   completed, exit_status>>

-----------------------------------------------------------------------------
(* The as_completed loop of clone_and_create_new_revisions *)

\* the helper calls of update_mbl_linked_repositories_conf that do not
\* return at once: units whose cloned repository is meta-mbl
ConfTargets(d, mobjs) ==
    (IF MBL_LINKED_REPOSITORIES_REPO_NAME \in Keys(d)
     THEN <<d[MBL_LINKED_REPOSITORIES_REPO_NAME]>> ELSE <<>>)
    \o SetToSeq({mobjs[f].repo_name_to_proj[MBL_LINKED_REPOSITORIES_REPO_NAME].cloned_repo :
                   f \in {g \in Keys(mobjs) :
                            MBL_LINKED_REPOSITORIES_REPO_NAME
                                \in Keys(mobjs[g].repo_name_to_proj)}}
                \ {None})

AfterConf(todo) ==
    IF todo = <<>> THEN "mbl_manifest_repo_push"
    ELSE "update_mbl_linked_repositories_conf"

\* as_completed yields the future of unit u; result() re-raises what the
\* worker raised, otherwise the cloned repository is stored
Collect(u) ==
    /\ pc = "as_completed"
    /\ u \in Units \ collected
    /\ Finished(u)
    /\ IF wstate[u] = "failed"
       THEN /\ exc' = werr[u]
            /\ pc' = "executor_shutdown"
            /\ net_at_abort' = Len(net_log)
            /\ UNCHANGED <<external_repo_name_to_cloned_repo,
                           manifest_file_name_to_obj, collected, conf_todo>>
       ELSE LET d == IF u[1] = EXTERNAL_SD_KEY_NAME
                     THEN (u[2] :> u) @@ external_repo_name_to_cloned_repo
                     ELSE external_repo_name_to_cloned_repo
                m == IF u[1] = EXTERNAL_SD_KEY_NAME
                     THEN manifest_file_name_to_obj
                     ELSE [manifest_file_name_to_obj EXCEPT
                             ![u[1]].repo_name_to_proj[u[2]].cloned_repo = u]
            IN  /\ external_repo_name_to_cloned_repo' = d
                /\ manifest_file_name_to_obj' = m
                /\ collected' = collected \cup {u}
                /\ exc' = exc
                /\ net_at_abort' = net_at_abort
                /\ IF collected \cup {u} = Units
                   THEN /\ conf_todo' = ConfTargets(d, m)
                        /\ pc' = AfterConf(ConfTargets(d, m))
                   ELSE /\ conf_todo' = conf_todo
                        /\ pc' = pc
    /\ UNCHANGED <<input_vars, side_vars, xml_files, conf_lines, conf_written, remote,
                   new_revisions, mbl_manifest_clone_ref, repos, clone_data,
                   wstate, wnew, werr, already_pushed_repository, summary_logs,
                   printed, completed, net_log, exit_status>>

\* as_completed raises TimeoutError: MAX_TMO_SEC passed with a worker running
Timeout ==
    /\ pc = "as_completed"
    /\ \E u \in Units : ~Finished(u)
    /\ exc' = "TimeoutError"
    /\ pc' = "executor_shutdown"
    /\ net_at_abort' = Len(net_log)
    /\ UNCHANGED <<input_vars, side_vars, xml_files, conf_lines, conf_written, remote,
                   new_revisions, mbl_manifest_clone_ref,
                   manifest_file_name_to_obj, external_repo_name_to_cloned_repo,
                   repos, clone_data, wstate, wnew, werr, collected, conf_todo,
                   already_pushed_repository, summary_logs, printed, completed,
                   net_log, exit_status>>

\* leaving the 'with ThreadPoolExecutor' block on an exception:
\* shutdown(wait=True) returns when every worker has returned
shutdown_returns_Mutant(ws) == TRUE

shutdown_returns(ws) == \A u \in Keys(ws) : ws[u] \in {"done", "failed"}

ExecutorShutdown ==
    /\ pc = "executor_shutdown"
    /\ shutdown_returns(wstate)
    /\ pc' = "__exit__"
    /\ UNCHANGED <<input_vars, side_vars, net_at_abort, xml_files, conf_lines, conf_written, remote, exc,
                   new_revisions, mbl_manifest_clone_ref,
                   manifest_file_name_to_obj, external_repo_name_to_cloned_repo,
                   repos, clone_data, wstate, wnew, werr, collected, conf_todo,
                   already_pushed_repository, summary_logs, printed, completed,
                   net_log, exit_status>>

-----------------------------------------------------------------------------
(* _main: update_mbl_linked_repositories_conf, one helper call *)

ModifyLog(repo) ==
    [h |-> SUMMARY_H_MODIFY_FILE, repo |-> repo.full_name,
     name |-> repo.clone_dest_path, commit |-> None]

BackupLog(repo) ==
    [h |-> SUMMARY_H_BKP, repo |-> repo.full_name,
     name |-> repo.clone_dest_path, commit |-> None]

UpdateConfHelper ==
    /\ pc = "update_mbl_linked_repositories_conf"
    /\ conf_todo # <<>>
    /\ LET u        == Head(conf_todo)
           git_repo == repos[u]
           rw       == conf_rewrite(conf_lines, new_revisions,
                                    external_repo_name_to_cloned_repo, repos)
           repo1    == IF rw.is_changed THEN commit_in(git_repo) ELSE git_repo
           logs1    == Append(summary_logs, BackupLog(git_repo))
           logs2    == IF rw.is_changed THEN Append(logs1, ModifyLog(git_repo))
                       ELSE logs1
       IN
       IF conf_lines = <<>>
       THEN /\ Raise("FileNotFoundError")
            /\ UNCHANGED <<conf_written, repos, remote, conf_todo,
                           already_pushed_repository, summary_logs, net_log>>
       ELSE IF rw.err # "ok"
       THEN /\ Raise(rw.err)
            /\ summary_logs' = logs1
            /\ UNCHANGED <<conf_written, repos, remote, conf_todo,
                           already_pushed_repository, net_log>>
       ELSE
       /\ conf_written' = (u :> rw.lines) @@ conf_written
       /\ repos' = [repos EXCEPT ![u] = repo1]
       /\ \E answer \in Answers(diagnostic_mode) :
          LET dg == diag_repo_push(diagnostic_mode, repo1, answer) IN
          IF repo1.handle.active_branch = None
          THEN /\ Raise("TypeError: detached head")
               /\ summary_logs' = logs2
               /\ UNCHANGED <<remote, conf_todo, already_pushed_repository, net_log>>
          ELSE IF dg = "skip"
          THEN /\ summary_logs' = logs2
               /\ conf_todo' = Tail(conf_todo)
               /\ pc' = AfterConf(Tail(conf_todo))
               /\ exc' = exc
               /\ UNCHANGED <<remote, already_pushed_repository, net_log>>
          ELSE IF dg # "push"
          THEN /\ Raise(dg)
               /\ summary_logs' = logs2
               /\ UNCHANGED <<remote, conf_todo, already_pushed_repository, net_log>>
          ELSE \E result \in PushResults(remote, repo1.url,
                                         active_branch_of(repo1).path) :
                 LET rp == repo_push(simulate, remote, already_pushed_repository,
                                     net_log, u, repo1, active_branch_of(repo1),
                                     result)
                 IN  /\ remote' = rp.rem
                     /\ already_pushed_repository' = rp.pushed
                     /\ net_log' = rp.net
                     /\ IF rp.err # "ok"
                        THEN /\ Raise(rp.err)
                             /\ summary_logs' = logs2
                             /\ conf_todo' = conf_todo
                        ELSE /\ summary_logs' = Append(logs2, CommitPushLog(repo1))
                             /\ conf_todo' = Tail(conf_todo)
                             /\ pc' = AfterConf(Tail(conf_todo))
                             /\ exc' = exc
    /\ UNCHANGED <<input_vars, side_vars, net_at_abort, xml_files, conf_lines, new_revisions,
                   mbl_manifest_clone_ref, manifest_file_name_to_obj,
                   external_repo_name_to_cloned_repo, clone_data, wstate, wnew,
                   werr, collected, printed, completed, exit_status>>

-----------------------------------------------------------------------------
(* _main: mbl_manifest_repo_push *)

MblManifestRepoPush ==
    /\ pc = "mbl_manifest_repo_push"
    /\ LET repo == commit_in(repos[external_repo_name_to_cloned_repo[MBL_MANIFEST_REPO_NAME]])
       IN
       /\ repos' = [repos EXCEPT ![HubUnit] = repo]
       /\ \E answer \in Answers(diagnostic_mode) :
          LET dg == diag_repo_push(diagnostic_mode, repo, answer) IN
          IF repo.handle.active_branch = None
          THEN /\ Raise("TypeError: detached head")
               /\ UNCHANGED <<remote, already_pushed_repository, net_log,
                              summary_logs>>
          ELSE IF dg = "skip"
          THEN /\ pc' = "print_summary"
               /\ exc' = exc
               /\ UNCHANGED <<remote, already_pushed_repository, net_log,
                              summary_logs>>
          ELSE IF dg # "push"
          THEN /\ Raise(dg)
               /\ UNCHANGED <<remote, already_pushed_repository, net_log,
                              summary_logs>>
          ELSE \E result \in PushResults(remote, repo.url, active_branch_of(repo).path) :
                 LET rp == repo_push(simulate, remote, already_pushed_repository,
                                     net_log, HubUnit, repo, active_branch_of(repo),
                                     result)
                 IN  /\ remote' = rp.rem
                     /\ already_pushed_repository' = rp.pushed
                     /\ net_log' = rp.net
                     /\ IF rp.err # "ok"
                        THEN /\ Raise(rp.err)
                             /\ summary_logs' = summary_logs
                        ELSE /\ summary_logs' = Append(summary_logs, CommitPushLog(repo))
                             /\ pc' = "print_summary"
                             /\ exc' = exc
    /\ UNCHANGED <<input_vars, side_vars, net_at_abort, xml_files, conf_lines, conf_written, new_revisions,
                   mbl_manifest_clone_ref, manifest_file_name_to_obj,
                   external_repo_name_to_cloned_repo, clone_data, wstate, wnew,
                   werr, collected, conf_todo, printed, completed, exit_status>>

-----------------------------------------------------------------------------
(* _main: print_summary and 'rm.completed = True' *)

PrintSummary ==
    /\ pc = "print_summary"
    /\ printed' = summary_logs
    /\ completed' = TRUE
    /\ pc' = "__exit__"
    /\ UNCHANGED <<input_vars, side_vars, net_at_abort, xml_files, conf_lines, conf_written, remote, exc,
                   new_revisions, mbl_manifest_clone_ref,
                   manifest_file_name_to_obj, external_repo_name_to_cloned_repo,
                   repos, clone_data, wstate, wnew, werr, collected, conf_todo,
                   already_pushed_repository, summary_logs, net_log, exit_status>>

-----------------------------------------------------------------------------
(* ReleaseManager.__exit__ *)

\* repo.handle.remotes.origin.push(":" + ref.path) deletes the ref
RemoteAfterDelete(rem, url, path) ==
    [k \in Keys(rem) \ {<<url, path>>} |-> rem[k]]

DeleteEntry(heap, rec) ==
    [op |-> "delete", url |-> heap[rec[1]].url, ref |-> rec[2].path,
     unit |-> rec[1], result |-> "ok"]

\* the loop 'for repo, ref in self.already_pushed_repository' from record
\* number i on: [rem, net] afterwards
RECURSIVE remove_pushed(_, _, _, _, _)
remove_pushed(rem, net, pushed, heap, i) ==
    IF i > Len(pushed)
    THEN [rem |-> rem, net |-> net]
    ELSE remove_pushed(RemoteAfterDelete(rem, heap[pushed[i][1]].url, pushed[i][2].path),
                       Append(net, DeleteEntry(heap, pushed[i])),
                       pushed, heap, i + 1)

exit_removes_Mutant(is_completed, pushed) == ~is_completed /\ Len(pushed) > 1

\* a condition that does not look at the completion flag
exit_removes_Mutant2(is_completed, pushed) == Len(pushed) > 0

\* the records in the opposite order
replay_order_Mutant(pushed) == [i \in 1..Len(pushed) |-> pushed[Len(pushed) + 1 - i]]

\* 'for repo, ref in self.already_pushed_repository': the order in which
\* the loop takes the records
replay_order(pushed) == pushed

exit_removes(is_completed, pushed) == ~is_completed /\ Len(pushed) > 0

\* __exit__ removes the temporary folder exactly when the option
\* --remove_temporary_folder was given
exit_rmtree_Mutant(remove_flag) == TRUE

exit_rmtree(remove_flag) == remove_flag

\* the exit status of a process whose sys.exit(0) counts as an error
exit_status_of_Mutant(e) ==
    IF e = NoException THEN "0"
    ELSE IF e = "SystemExit: -1" THEN "255"
    ELSE "1"

\* sys.exit(_main()): the exit status of the process when exception e leaves
\* _main; _main returns None, which gives status 0, an uncaught exception
\* gives 1 and SystemExit its code modulo 256
exit_status_of(e) ==
    IF e = NoException THEN "0"
    ELSE IF e = "SystemExit: 0" THEN "0"
    ELSE IF e = "SystemExit: -1" THEN "255"
    ELSE "1"

Exit ==
    /\ pc = "__exit__"
    /\ LET r == IF exit_removes(completed, already_pushed_repository)
                THEN remove_pushed(remote, net_log,
                                   replay_order(already_pushed_repository),
                                   repos, 1)
                ELSE [rem |-> remote, net |-> net_log]
       IN  /\ remote' = r.rem
           /\ net_log' = r.net
    /\ pc' = "done"
    /\ exit_status' = exit_status_of(exc)
    /\ tmp_dir_exists' = IF exit_rmtree(remove_temporary_folder) THEN FALSE
                         ELSE tmp_dir_exists
    /\ UNCHANGED <<input_vars, remote_checks, net_at_abort, xml_files, conf_lines, conf_written, exc,
                   new_revisions, mbl_manifest_clone_ref,
                   manifest_file_name_to_obj, external_repo_name_to_cloned_repo,
                   repos, clone_data, wstate, wnew, werr, collected, conf_todo,
                   already_pushed_repository, summary_logs, printed, completed>>

-----------------------------------------------------------------------------
(* Specifications *)

AllUnits == {<<s, r>> : s \in {EXTERNAL_SD_KEY_NAME, F1, F2}, r \in AllRepos}

Worker == \E u \in AllUnits : WorkerClone(u) \/ WorkerCreate(u) \/ WorkerPush(u)

Next ==
    \/ ParseInput
    \/ ProcessManifestFiles
    \/ ValidateCrossDependencies
    \/ CloneSubmit
    \/ Worker
    \/ \E u \in AllUnits : Collect(u)
    \/ Timeout
    \/ ExecutorShutdown
    \/ UpdateConfHelper
    \/ MblManifestRepoPush
    \/ PrintSummary
    \/ Exit

Spec == Init /\ [][Next]_vars

NextPrep ==
    \/ ParseInput
    \/ ProcessManifestFiles
    \/ ValidateCrossDependencies
    \/ CloneSubmit
    \/ Exit

SpecPrep == InitPrep /\ [][NextPrep]_vars

\* the full runs under every combination of the command line options
SpecOptions == InitOptions /\ [][Next]_vars

\* the runs up to the start of the worker phase, over the manifests and
\* inputs about the rewrite of the manifest files
SpecRewrite == InitRewrite /\ [][NextPrep]_vars

\* the full runs over the inputs about the clones
SpecPaths == InitPaths /\ [][Next]_vars

-----------------------------------------------------------------------------
(* Properties *)

\* the positions of net_log holding a clone, a push or a deleting push
NetIdx(op) == {i \in 1..Len(net_log) : net_log[i].op = op}

PushIdx(result) == {i \in NetIdx("push") : net_log[i].result = result}

RefAt(i) == <<net_log[i].url, net_log[i].ref>>

\* the refs the remotes held before the run pushed or deleted anything
RemoteAtStart == [k \in {x \in Keys(remote) : remote[x].by = "init"} |-> remote[k]]

RemoteStateError == "ArgumentTypeError: remote state"

\* C1 as stated: when remote-state validation finds a mismatch the run aborts
\* and, at that point, no clone of any repository and no push has been
\* performed.
C1_NoCloneNoPushAtMismatch ==
    exc = RemoteStateError =>
        NetIdx("clone") = {} /\ NetIdx("push") = {} /\ NetIdx("delete") = {}

\* C1 amended: when remote-state validation finds a mismatch the run aborts
\* and, at that point, nothing has been pushed and the only clone made is the
\* one of the hub repository mbl-manifest; a clone of any other repository
\* and a push happen only in runs whose remote-state validation passed.
C1_OnlyHubCloneAtMismatch ==
    /\ exc = RemoteStateError =>
           /\ pc \in {"__exit__", "done"}
           /\ ~completed
           /\ Len(net_log) = 1
           /\ net_log[1].op = "clone"
           /\ net_log[1].unit = HubUnit
    /\ ( /\ pc # "done"
         /\ \E i \in 1..Len(net_log) :
                net_log[i].op # "clone" \/ net_log[i].unit # HubUnit )
       => \A c \in remotes_to_check(new_revisions, manifest_file_name_to_obj) :
              validate_remote_repositories_state_helper(RemoteAtStart, c.url, c.rev)
                  = c.success_indication

C1_Witness ==
    /\ pc = "__exit__"
    /\ exc = RemoteStateError
    /\ Len(net_log) = 1
    /\ net_log[1].unit = HubUnit

C4_SwallowsOnlyAlreadyExists ==
    /\ \A i \in PushIdx("other error") :
           /\ ~completed
           /\ \/ exc = "GitCommandError: push"
              \/ /\ net_log[i].unit \in Keys(werr)
                 /\ werr[net_log[i].unit] = "GitCommandError: push"
    /\ \A i \in PushIdx("reference already exists") :
           net_log[i].unit \in Keys(werr) =>
               werr[net_log[i].unit] # "GitCommandError: push"
    /\ exc = "GitCommandError: push" => PushIdx("other error") # {}
    /\ (pc = "done" /\ PushIdx("other error") # {}) => exit_status = "1"

C4_Witness ==
    /\ pc = "done"
    /\ PushIdx("reference already exists") # {}
    /\ \E i \in PushIdx("other error") :
           \E j \in PushIdx("reference already exists") : j < i

\* the units of work of the run, the hub repository included
RunUnits == Units \cup {HubUnit}

PrintedPushIdx == {i \in 1..Len(printed) : printed[i].h = SUMMARY_H_PUSH}

\* the PUSH line of unit u, as its clone determines it
PushLineOf(u) ==
    IF worker_pushes(repos[u]) THEN PushLog(repos[u]) ELSE CommitPushLog(repos[u])

\* the created reference of unit u is in the clone of unit u
CreatedLocally(u) ==
    /\ u \in Keys(wnew)
    /\ \/ wnew[u].kind = "head" /\ wnew[u].name \in Keys(repos[u].handle.heads)
       \/ wnew[u].kind = "tag" /\ wnew[u].name \in Keys(repos[u].handle.tags)

\* C5: in simulation mode the run performs every validation and creates
\* every branch or tag locally but issues no push, neither one that creates
\* a ref nor one that deletes a ref, and leaves the remotes as they were;
\* the summary printed by a completed run has one PUSH entry for every unit
\* of work, determined by the local clones alone, the same with and without
\* simulation.
C5_SimulateNeverPushes ==
    /\ simulate =>
           /\ NetIdx("push") = {}
           /\ NetIdx("delete") = {}
           /\ remote = RemoteAtStart
           /\ already_pushed_repository = <<>>
    /\ completed =>
           /\ \A c \in remotes_to_check(new_revisions, manifest_file_name_to_obj) :
                  validate_remote_repositories_state_helper(RemoteAtStart, c.url, c.rev)
                      = c.success_indication
           /\ \A u \in RunUnits : CreatedLocally(u)
           /\ Cardinality(PrintedPushIdx) = Cardinality(RunUnits)
           /\ \A u \in RunUnits :
                  \E i \in PrintedPushIdx : printed[i] = PushLineOf(u)
           /\ \A i \in PrintedPushIdx :
                  \E u \in RunUnits : printed[i] = PushLineOf(u)

C5_Witness ==
    /\ simulate
    /\ completed
    /\ pc = "done"
    /\ Cardinality(PrintedPushIdx) >= 3
    /\ NetIdx("clone") # {}

\* C6: for every external-scope entry name: [start, target] the run clones
\* the repository at start, then creates target at the head commit of that
\* clone, then pushes target; start is never pushed.
C6_ExternalPushesTarget ==
    \A i \in NetIdx("push") :
        net_log[i].unit[1] = EXTERNAL_SD_KEY_NAME =>
            LET pair == new_revisions[EXTERNAL_SD_KEY_NAME][net_log[i].unit[2]]
            IN  /\ net_log[i].ref = pair[2]
                /\ net_log[i].ref # pair[1]
                /\ \E c \in NetIdx("clone") :
                       /\ c < i
                       /\ net_log[c].unit = net_log[i].unit
                       /\ net_log[c].ref = pair[1]

\* a revision is on the remote of a repository: a ref by its path, a commit
\* by being reachable there
PresentOnRemote(rem, url, rev) ==
    IF is_valid_git_commit_hash(rev)
    THEN rev \in RemoteCommits(rem, url)
    ELSE <<url, rev>> \in Keys(rem)

\* the target revision of repository R in manifest file F as the input
\* document states it: F's own scope, else the common scope, else none
TargetOf(nr, F, R) ==
    IF F \in Keys(nr) /\ R \in Keys(nr[F])
    THEN nr[F][R]
    ELSE IF COMMON_SD_KEY_NAME \in Keys(nr) /\ R \in Keys(nr[COMMON_SD_KEY_NAME])
    THEN nr[COMMON_SD_KEY_NAME][R]
    ELSE None

\* C7: the run gets past validate_remote_repositories_state only if the
\* target of every external-scope repository and of every Arm-managed
\* manifest project with a pending revision change is absent from its
\* remote, and the target of every other manifest project with a pending
\* revision change is present on its remote.
C7_ProceedsOnlyOnMatchingRemoteState ==
    pc = "clone_and_create_new_revisions" =>
        /\ \A k \in Keys(new_revisions[EXTERNAL_SD_KEY_NAME]) :
               ~PresentOnRemote(remote, UrlOf(k),
                                new_revisions[EXTERNAL_SD_KEY_NAME][k][2])
        /\ \A F \in Keys(manifest_file_name_to_obj) :
               \A R \in Keys(manifest_file_name_to_obj[F].repo_name_to_proj) :
                   LET proj == manifest_file_name_to_obj[F].repo_name_to_proj[R]
                       rev  == TargetOf(new_revisions, F, R)
                   IN  rev # None =>
                           (PresentOnRemote(remote, proj.url, rev) = ~proj.is_arm_mrr)

\* the input document passed parse_and_validate_input_file
InputAccepted ==
    /\ pc # "parse_and_validate_input_file"
    /\ new_revisions = input_doc

\* parse_and_validate_input_file raised ValueError
InputRejected ==
    /\ pc \in {"__exit__", "done"}
    /\ new_revisions = EmptyDict
    /\ exc \in {"ValueError: duplicate key",
                "ValueError: no external key", "ValueError: no manifest repository",
                "ValueError: bad external list", "ValueError: invalid revision",
                "ValueError: key clash"}

FileScopes(nrd) == Keys(nrd) \ {COMMON_SD_KEY_NAME, EXTERNAL_SD_KEY_NAME}

\* the revision attribute process_manifest_files leaves on a project whose
\* target is target: none when the target is the default branch of the
\* file, else the hash itself or the last component of the ref
WrittenRevision(target, default_rev) ==
    IF target = REF_BRANCH_PREFIX \o default_rev THEN None
    ELSE IF is_valid_git_commit_hash(target) THEN target
    ELSE SubSeq(target, LastSlash(target) + 1, Len(target))

\* C8: for every validated input, every manifest file F and every
\* repository R of F, the target revision used for R in F (in the rewritten
\* manifest and in the list of repositories to clone) is the value under F's
\* own scope when R is a key there, else the value under the common scope,
\* else none; R is never a key of both, and an entry for R under another
\* file's scope has no effect on F.
C8_TargetResolvedPerFile ==
    /\ InputAccepted =>
           \A F \in FileScopes(new_revisions) :
               \A R \in Keys(new_revisions[F]) :
                   ~(COMMON_SD_KEY_NAME \in Keys(new_revisions)
                     /\ R \in Keys(new_revisions[COMMON_SD_KEY_NAME]))
    /\ \A F \in Keys(manifest_file_name_to_obj) :
               \A i \in 1..Len(xml_files[F].projects) :
                   LET R      == xml_files[F].projects[i].name
                       target == TargetOf(new_revisions, F, R)
                   IN  target # None =>
                           xml_files[F].projects[i].revision =
                               WrittenRevision(target,
                                   manifest_file_name_to_obj[F].default_rev)
    /\ pc = "as_completed" =>
           /\ \A w \in clone_data :
                  w.sd_name # EXTERNAL_SD_KEY_NAME =>
                      w.new_rev = TargetOf(new_revisions, w.sd_name, w.repo_name)
           /\ \A F \in Keys(manifest_file_name_to_obj) :
                  \A R \in Keys(manifest_file_name_to_obj[F].repo_name_to_proj) :
                      ( /\ manifest_file_name_to_obj[F].repo_name_to_proj[R].is_arm_mrr
                        /\ TargetOf(new_revisions, F, R) # None )
                      <=> \E w \in clone_data : UnitOf(w) = <<F, R>>

C8_Witness ==
    /\ pc = "as_completed"
    /\ \E w1 \in clone_data :
           \E w2 \in clone_data :
               /\ w1.repo_name = PROJ_P /\ w1.sd_name = F1
               /\ w2.repo_name = PROJ_P /\ w2.sd_name = F2
               /\ w1.new_rev # w2.new_rev

\* C9 as stated: parse_and_validate_input_file rejects every input in which
\* the same repository name is a key under more than one file-specific
\* scope.
C9_RejectsNameInTwoFileScopes ==
    ( /\ pc # "parse_and_validate_input_file"
      /\ \E F \in FileScopes(input_doc) :
             \E G \in FileScopes(input_doc) \ {F} :
                 Keys(input_doc[F]) \cap Keys(input_doc[G]) # {} )
    => InputRejected

\* a key of the common or of the external scope is a key of a file scope
CommonOrExternalKeyInFileScope(nrd) ==
    \E sd \in {COMMON_SD_KEY_NAME, EXTERNAL_SD_KEY_NAME} \cap Keys(nrd) :
        \E F \in FileScopes(nrd) : Keys(nrd[sd]) \cap Keys(nrd[F]) # {}

\* C9 amended: parse_and_validate_input_file rejects every input in which a
\* repository name that is a key under the common scope or under the
\* external scope is also a key under a file-specific scope, and raises its
\* key-clash error for no other input; a name that is a key under two
\* file-specific scopes only is not rejected for that.
C9_RejectsCommonOrExternalKeyInFileScope ==
    /\ ( pc # "parse_and_validate_input_file"
         /\ CommonOrExternalKeyInFileScope(input_doc) ) => InputRejected
    /\ exc = "ValueError: key clash" => CommonOrExternalKeyInFileScope(input_doc)

C9_Witness ==
    /\ pc = "__exit__"
    /\ exc = "ValueError: key clash"
    /\ COMMON_SD_KEY_NAME \in Keys(input_doc)
    /\ F1 \in Keys(input_doc)
    /\ Keys(input_doc[COMMON_SD_KEY_NAME]) \cap Keys(input_doc[F1]) # {}
    /\ Keys(input_doc[EXTERNAL_SD_KEY_NAME]) = {MBL_MANIFEST_REPO_NAME}

\* two project elements of the file have the same short name
RepeatedShortName(xml) ==
    \E i \in 1..Len(xml.projects) :
        \E j \in (i + 1)..Len(xml.projects) :
            rsplit(xml.projects[i].name)[2] = rsplit(xml.projects[j].name)[2]

\* C10: parsing a manifest file that holds two project elements with the
\* same short name fails with a structural error: the parse of such a file
\* never ends with a RepoManifestFile object built from it.
C10_RepeatedShortNameFailsParse ==
    \A F \in Keys(manifest_file_name_to_obj) : ~RepeatedShortName(xml_files[F])

\* a string of exactly 40 hexadecimal digits
IsFortyHex(rev) ==
    /\ Len(rev) >= 1
    /\ \A i \in 1..Len(rev) : IsHexTok(rev[i])
    /\ StrLen(rev) = 40

\* a valid branch ref, tag ref or 40-hex commit hash
ValidRevisionString(rev) ==
    \/ is_valid_git_branch_name(rev)
    \/ is_valid_git_tag_name(rev)
    \/ IsFortyHex(rev)

\* some revision string of the document is not a valid revision
MalformedRevision(nrd) ==
    \E sd \in Keys(nrd) :
        \E k \in Keys(nrd[sd]) :
            IF sd = EXTERNAL_SD_KEY_NAME
            THEN \E j \in 1..Len(nrd[sd][k]) : ~ValidRevisionString(nrd[sd][k][j])
            ELSE ~ValidRevisionString(nrd[sd][k])

\* some value of the external scope is not a pair of two distinct revisions
ExternalValueNotDistinctPair(nrd) ==
    \E k \in Keys(nrd[EXTERNAL_SD_KEY_NAME]) :
        LET v == nrd[EXTERNAL_SD_KEY_NAME][k] IN ~(Len(v) = 2 /\ v[1] # v[2])

StructuralViolation(nrd) ==
    \/ EXTERNAL_SD_KEY_NAME \notin Keys(nrd)
    \/ MBL_MANIFEST_REPO_NAME \notin Keys(nrd[EXTERNAL_SD_KEY_NAME])
    \/ ExternalValueNotDistinctPair(nrd)
    \/ CommonOrExternalKeyInFileScope(nrd)
    \/ MalformedRevision(nrd)

RepeatsKey(pairs) ==
    \E i \in DOMAIN pairs : \E j \in DOMAIN pairs : i # j /\ pairs[i][1] = pairs[j][1]

\* some object of the document, the top-level one or a nested one, holds a
\* key twice
HasDuplicateKey(file) ==
    /\ file.legal
    /\ \/ RepeatsKey(file.pairs)
       \/ \E i \in DOMAIN file.pairs : RepeatsKey(file.pairs[i][2])

\* C12: parsing an input document in which an object, top-level or nested,
\* holds a duplicate key fails at load time with the duplicate-key error:
\* no other validation of the document has run (no other error is reported,
\* neither new_revisions nor the clone ref of mbl-manifest is assigned) and
\* no remote has been contacted; the error is raised for no other document.
C12_DuplicateKeyFailsAtLoad ==
    /\ ( pc # "parse_and_validate_input_file" /\ HasDuplicateKey(input_file) )
       => /\ exc = "ValueError: duplicate key"
          /\ pc \in {"__exit__", "done"}
          /\ new_revisions = EmptyDict
          /\ mbl_manifest_clone_ref = <<>>
          /\ net_log = <<>>
          /\ remote_checks = {}
    /\ exc = "ValueError: duplicate key" => HasDuplicateKey(input_file)

C12_Witness ==
    /\ pc = "__exit__"
    /\ exc = "ValueError: duplicate key"
    /\ ~RepeatsKey(input_file.pairs)
    /\ \E i \in DOMAIN input_file.pairs :
           /\ input_file.pairs[i][1] = F1
           /\ RepeatsKey(input_file.pairs[i][2])

\* the errors of the checks 1 and 2 of validate_cross_dependencies
CrossDependencyErrors == {"ValueError: main entry key", "ValueError: entry not found"}

\* the input names a file that is no parsed manifest, or under a file scope
\* a repository that is no project of that manifest, or under the common
\* scope a repository that is a project of no parsed manifest
CrossViolation(nr, mobjs) ==
    \/ \E F \in FileScopes(nr) : F \notin Keys(mobjs)
    \/ \E F \in FileScopes(nr) \cap Keys(mobjs) :
           \E R \in Keys(nr[F]) : R \notin Keys(mobjs[F].repo_name_to_proj)
    \/ /\ COMMON_SD_KEY_NAME \in Keys(nr)
       /\ \E R \in Keys(nr[COMMON_SD_KEY_NAME]) :
              \A F \in Keys(mobjs) : R \notin Keys(mobjs[F].repo_name_to_proj)

\* C13: validate_cross_dependencies fails, before any remote-state check is
\* started, exactly when a scope key other than the common and the external
\* scope is not the file identifier of a parsed manifest, or a repository
\* name under a file scope is not a project of that manifest, or a
\* repository name under the common scope is not a project of any parsed
\* manifest; for every other input it goes on to the remote-state checks.
C13_CrossDependenciesChecked ==
    [][ pc = "validate_cross_dependencies" =>
          /\ CrossViolation(new_revisions, manifest_file_name_to_obj)
                 <=> exc' \in CrossDependencyErrors
          /\ exc' \in CrossDependencyErrors =>
                 /\ pc' = "__exit__"
                 /\ remote_checks' = {}
                 /\ net_log' = net_log
          /\ exc' \notin CrossDependencyErrors => remote_checks' # {} ]_vars

C13_Witness ==
    /\ pc = "__exit__"
    /\ exc = "ValueError: entry not found"
    /\ remote_checks = {}
    /\ F1 \in Keys(new_revisions)
    /\ F2 \in Keys(new_revisions)
    /\ PROJ_Q \in Keys(new_revisions[F2])
    /\ PROJ_Q \in Keys(manifest_file_name_to_obj[F1].repo_name_to_proj)

\* the revision attribute a rewritten project is to have for target T: none
\* for the default branch of the manifest, the hash itself for a commit
\* hash, else T without its refs/heads/ or refs/tags/ prefix
ExpectedRevisionAttribute(T, default_rev) ==
    IF T = REF_BRANCH_PREFIX \o default_rev THEN None
    ELSE IF IsFortyHex(T) THEN T
    ELSE NameOfRef(T)

\* the revision a parse of the project element gives
ReparsedRevision(elem, default_rev) ==
    IF elem.revision = None THEN default_rev ELSE elem.revision

\* C14: after a manifest is rewritten, every project with a pending target T,
\* a project without explicit revision attribute included, has no revision
\* attribute when T is refs/heads/<manifest default> (a parse then gives the
\* default), T itself when T is a commit hash, else the short form of T; the
\* rewrite does not fail on a project that had no revision attribute.
C14_RewrittenRevisionAttribute ==
    /\ exc # "KeyError: revision"
    /\ \A F \in Keys(manifest_file_name_to_obj) :
           \A i \in 1..Len(xml_files[F].projects) :
               LET elem == xml_files[F].projects[i]
                   dflt == manifest_file_name_to_obj[F].default_rev
                   T    == TargetOf(new_revisions, F, elem.name)
               IN  ( T # None /\ ValidRevisionString(T) ) =>
                       /\ elem.revision = ExpectedRevisionAttribute(T, dflt)
                       /\ T = REF_BRANCH_PREFIX \o dflt =>
                              ReparsedRevision(elem, dflt) = dflt

\* the external repositories whose lines the rewrite is to update
LinkedExternals(nr) ==
    Keys(nr[EXTERNAL_SD_KEY_NAME])
        \ {MBL_MANIFEST_REPO_NAME, MBL_LINKED_REPOSITORIES_REPO_NAME}

\* C15: after update_mbl_linked_repositories_conf, for every external
\* repository other than mbl-manifest and meta-mbl whose URL is in the
\* configuration file, the line with that URL carries the new branch name of
\* the repository in its branch option and the following SRCREV line carries
\* the head commit of the new branch; a second rewrite leaves the file as
\* it is.
C15_ConfCarriesNewBranchAndHash ==
    \A u \in Keys(conf_written) :
        LET lines == conf_written[u] IN
        /\ \A R \in LinkedExternals(new_revisions) :
               \A i \in 1..Len(lines) :
                   ( lines[i].kind = "uri" /\ lines[i].repo = R ) =>
                       /\ lines[i].branch =
                              NameOfRef(new_revisions[EXTERNAL_SD_KEY_NAME][R][2])
                       /\ i < Len(lines)
                       /\ lines[i + 1].value = wnew[<<EXTERNAL_SD_KEY_NAME, R>>].commit
        /\ conf_rewrite(lines, new_revisions, external_repo_name_to_cloned_repo,
                        repos).lines = lines

\* the errors of the validation of the input document
InputErrors ==
    {"ValueError: duplicate key", "ValueError: no external key",
     "ValueError: no manifest repository", "ValueError: bad external list",
     "ValueError: invalid revision", "ValueError: key clash"}

\* the push unit u has to make was made, or simulated, and is in the printed
\* summary; a push answered with "reference already exists" counts as made
RequiredPushDone(u) ==
    /\ \E i \in PrintedPushIdx : printed[i] = PushLineOf(u)
    /\ \/ simulate
       \/ \E i \in NetIdx("push") :
              /\ net_log[i].unit = u
              /\ net_log[i].result \in {"ok", "reference already exists"}

\* C16: the exit status of the process is not 0 after a validation failure,
\* a remote-state mismatch or a failed push, and it is 0 only if every
\* required push, simulated in simulation mode, succeeded and the final
\* summary was printed.
C16_ExitStatus ==
    pc = "done" =>
        /\ ( \/ exc \in InputErrors \cup CrossDependencyErrors
                        \cup {RemoteStateError, "GitCommandError: push"}
             \/ PushIdx("other error") # {} )
           => exit_status # "0"
        /\ exit_status = "0" =>
               /\ completed
               /\ printed # <<>>
               /\ printed = summary_logs
               /\ \A u \in RunUnits : RequiredPushDone(u)

RecordRef(k) ==
    <<repos[already_pushed_repository[k][1]].url,
      already_pushed_repository[k][2].path>>

Deletes == SelectSeq(net_log, LAMBDA e : e.op = "delete")

\* C19 as stated: on a failed run the push records are replayed in reverse
\* order of recording: the ref pushed last is deleted first and the ref
\* pushed first is deleted last.
C19_ReplayedInReverseOrder ==
    ( pc = "done" /\ ~completed ) =>
        /\ Len(Deletes) = Len(already_pushed_repository)
        /\ \A k \in 1..Len(Deletes) :
               <<Deletes[k].url, Deletes[k].ref>>
                   = RecordRef(Len(already_pushed_repository) + 1 - k)

\* C19 amended: on a failed run the push records are replayed in the order
\* of recording: the ref pushed first is deleted first and the ref pushed
\* last is deleted last.
C19_ReplayedInRecordingOrder ==
    ( pc = "done" /\ ~completed ) =>
        /\ Len(Deletes) = Len(already_pushed_repository)
        /\ \A k \in 1..Len(Deletes) :
               <<Deletes[k].url, Deletes[k].ref>> = RecordRef(k)

C19_Witness ==
    /\ pc = "done"
    /\ ~completed
    /\ Len(already_pushed_repository) >= 2
    /\ Len(Deletes) >= 2
    /\ RecordRef(1) # RecordRef(2)
    /\ <<Deletes[1].url, Deletes[1].ref>> = RecordRef(1)

\* this step makes a push: repo_push has called git push once more
PushStep ==
    /\ Len(net_log') = Len(net_log) + 1
    /\ net_log'[Len(net_log')].op = "push"

\* the unit whose repository the step pushes
PushedUnit == net_log'[Len(net_log')].unit

\* mbl-manifest and meta-mbl
SpecialRepo(u) ==
    repos[u].full_name \in {MBL_MANIFEST_REPO_NAME, MBL_LINKED_REPOSITORIES_REPO_NAME}

\* every worker has returned without an exception and as_completed has
\* handed every result to the main thread
ConcurrentPhaseOver ==
    /\ Units # {}
    /\ collected = Units
    /\ \A u \in Units : wstate[u] = "done"

\* the step commits in the clone of unit u before it pushes
CommittedInStep(u) ==
    /\ repos'[u].handle.head_commit = NewCommit(repos[u].handle.head_commit)
    /\ active_branch_of(repos'[u]).commit = repos'[u].handle.head_commit

\* the push is made by the worker of unit u, right after it created the ref
PushByWorker(u) ==
    /\ pc \in {"as_completed", "executor_shutdown"}
    /\ wstate[u] = "created"
    /\ wstate'[u] \in {"done", "failed"}
    /\ net_log'[Len(net_log')].ref = wnew[u].path

\* the push is made by the main thread in one of the two final steps
PushByMainThread ==
    /\ pc \in {"update_mbl_linked_repositories_conf", "mbl_manifest_repo_push"}
    /\ wstate' = wstate
    /\ ConcurrentPhaseOver

OkPushes == {i \in NetIdx("push") : net_log[i].result = "ok"}

\* every record stands for a successful push of this run, and a push whose
\* failure was swallowed left no record
RecordedOnlyOwnPushes ==
    /\ Len(already_pushed_repository) = Cardinality(OkPushes)
    /\ \A k \in 1..Len(already_pushed_repository) :
           \E i \in OkPushes : /\ RefAt(i) = RecordRef(k)
                               /\ net_log[i].unit = already_pushed_repository[k][1]

\* C21: a push whose failure was swallowed as the race 'reference already
\* exists' is not recorded: a (repository, ref) pair is recorded only when
\* the push of this run succeeded, so that the rollback about to start
\* deletes no ref that somebody else than this run created.
C21_RollbackDeletesOnlyOwnRefs ==
    /\ RecordedOnlyOwnPushes
    /\ ( pc = "__exit__" /\ ~completed ) =>
           \A k \in 1..Len(already_pushed_repository) :
               RecordRef(k) \in Keys(remote) => remote[RecordRef(k)].by = "run"

\* the first half of C21 alone
C21_RecordedOnlyOwnPushes == RecordedOnlyOwnPushes

\* the directory the worker of input w clones into
DestPathOf(w) == w.base_path \o <<"/">> \o w.name

\* the directory of the clone of mbl-manifest
HubDestPath == tmp_dir_path \o <<"/">> \o MBL_MANIFEST_REPO_SHORT_NAME

\* C22: each worker owns its directory: the clone destination paths of the
\* clone of mbl-manifest, of every external repository and of every manifest
\* project of every file are pairwise distinct, no two units of a run clone
\* into the same directory.
C22_CloneDirectoriesDistinct ==
    /\ \A w1, w2 \in clone_data :
           w1 # w2 => DestPathOf(w1) # DestPathOf(w2)
    /\ \A w \in clone_data : DestPathOf(w) # HubDestPath
    /\ \A u, v \in Keys(repos) :
           u # v => repos[u].clone_dest_path # repos[v].clone_dest_path

\* the projects of the parsed manifest files, as (file name, project name)
ManifestProjects ==
    {<<f, n>> : f \in Keys(manifest_file_name_to_obj), n \in AllRepos} \cap
    UNION {{<<f, n>> : n \in Keys(manifest_file_name_to_obj[f].repo_name_to_proj)} :
             f \in Keys(manifest_file_name_to_obj)}

ProjectOf(fn) == manifest_file_name_to_obj[fn[1]].repo_name_to_proj[fn[2]]

\* a new revision is requested for the project
NewRevisionRequested(fn) ==
    get_new_ref_from_new_revisions(new_revisions, fn[1], ProjectOf(fn).full_name) # None

\* in this step the main thread assigns cloned_repo of the project
AssignsClonedRepo(fn) ==
    /\ fn \in ManifestProjects
    /\ ProjectOf(fn).cloned_repo = None
    /\ manifest_file_name_to_obj'[fn[1]].repo_name_to_proj[fn[2]].cloned_repo # None

\* cloned_repo is assigned by the as_completed loop of the main thread,
\* after the worker of the project has returned, and is never assigned again
AssignedOnceByMainThread ==
    \A fn \in ManifestProjects :
        /\ AssignsClonedRepo(fn) =>
               /\ pc = "as_completed"
               /\ wstate' = wstate
               /\ wstate[fn] = "done"
               /\ fn \notin collected /\ fn \in collected'
               /\ manifest_file_name_to_obj'[fn[1]].repo_name_to_proj[fn[2]].cloned_repo = fn
        /\ ProjectOf(fn).cloned_repo # None =>
               /\ fn \in Keys(manifest_file_name_to_obj')
                   => manifest_file_name_to_obj'[fn[1]].repo_name_to_proj[fn[2]].cloned_repo
                          = ProjectOf(fn).cloned_repo

PushesOf(u) == {i \in NetIdx("push") : net_log[i].unit = u}

\* the pushes that failed with an error repo_push does not swallow
FatalPushes == {i \in NetIdx("push") : net_log[i].result = "other error"}

\* a check of the remote state fails in the state of the remotes
RemoteStateMismatch ==
    \E w \in remotes_to_check(new_revisions, manifest_file_name_to_obj) :
        check_fails(remote, w)

\* C24: no step is retried: in one run every cloned repository has at most
\* one push attempt and the checks of the remote state are issued once; a
\* mismatch of the remote state, or a push failure other than the swallowed
\* race, ends the run: it never completes, and nothing is attempted again.
C24_NoRetry ==
    [][ /\ \A u \in AllUnits : Cardinality(PushesOf(u)') <= 1
        /\ remote_checks' # remote_checks =>
               pc = "validate_cross_dependencies" /\ remote_checks = {}
        /\ pc = "validate_cross_dependencies" => pc' # pc
        /\ pc' = "validate_cross_dependencies" =>
               pc = "process_manifest_files" /\ remote_checks = {}
        /\ pc' = "process_manifest_files" => pc = "parse_and_validate_input_file"
        /\ ( pc = "validate_cross_dependencies"
             /\ ~CrossViolation(new_revisions, manifest_file_name_to_obj)
             /\ RemoteStateMismatch ) =>
               /\ pc' = "__exit__"
               /\ exc' \in {"ArgumentTypeError: remote state", "TimeoutError"}
        /\ exc' = "ArgumentTypeError: remote state" =>
               /\ pc' \in {"__exit__", "done"}
               /\ net_log' = net_log \/ pc = "__exit__"
               /\ NetIdx("push")' = {}
               /\ ~completed'
        /\ FatalPushes' # {} =>
               /\ ~completed'
               /\ pc' \in {"as_completed", "executor_shutdown", "__exit__", "done"}
               /\ pc' = "done" => exit_status' = "1" ]_vars

\* a run that ended after a push failed with another error than the race:
\* one attempt for that repository, although another worker pushed after it
C24_Witness ==
    /\ pc = "done"
    /\ exit_status = "1"
    /\ \E i \in FatalPushes :
         /\ Cardinality(PushesOf(net_log[i].unit)) = 1
         /\ \E j \in NetIdx("push") : j > i
    /\ remote_checks # {}

\* the project is Arm-managed: name prefix armmbed and remote key github
ArmManaged(fn) ==
    /\ rsplit(ProjectOf(fn).full_name)[1] = ARM_MRR_REPO_NAME_PREFIX
    /\ ProjectOf(fn).remote_key = MRR_MANIFEST_REMOTE_KEY

\* the run has cloned from, pushed to or deleted on the URL
TouchedByRun(url) ==
    \/ \E i \in 1..Len(net_log) : net_log[i].url = url
    \/ \E k \in Keys(remote) : k[1] = url /\ remote[k].by # "init"
    \/ \E u \in Keys(repos) : repos[u].url = url

\* the <project> element of the file for the project, after the rewrite
ElementsOf(fn) ==
    {i \in 1..Len(xml_files[fn[1]].projects) :
         xml_files[fn[1]].projects[i].name = fn[2]}

ManifestsProcessed ==
    /\ pc = "process_manifest_files"
    /\ pc' = "validate_cross_dependencies"

\* C26: the rewrite of a manifest changes only the project elements with a
\* pending target revision: a project for which no new revision resolves
\* keeps all its attributes, the upstream attribute included, wherever it
\* stands in the file relative to the projects that were changed.
C26_UntargetedProjectsUnchanged ==
    [][ ManifestsProcessed =>
          \A F \in Keys(xml_files) :
              \A i \in 1..Len(xml_files[F].projects) :
                  get_new_ref_from_new_revisions(new_revisions, F,
                                                 xml_files[F].projects[i].name) = None
                      => xml_files'[F].projects[i] = xml_files[F].projects[i] ]_vars

\* the same for the projects that stand before every project with a target
C26_UntargetedProjectsBeforeUnchanged ==
    [][ ManifestsProcessed =>
          \A F \in Keys(xml_files) :
              \A i \in 1..Len(xml_files[F].projects) :
                  ( \A j \in 1..i :
                        get_new_ref_from_new_revisions(new_revisions, F,
                                                       xml_files[F].projects[j].name) = None )
                      => xml_files'[F].projects[i] = xml_files[F].projects[i] ]_vars

\* the input is valid and its only unit of work is mbl-manifest: the run
\* stands at clone_and_create_new_revisions, the external scope holds
\* mbl-manifest alone and no Arm-managed project has a pending revision
HubIsOnlyUnit ==
    /\ pc = "clone_and_create_new_revisions"
    /\ Keys(new_revisions[EXTERNAL_SD_KEY_NAME]) = {MBL_MANIFEST_REPO_NAME}
    /\ \A fn \in ManifestProjects :
           ProjectOf(fn).is_arm_mrr => ~NewRevisionRequested(fn)

\* C27: for a valid input whose only unit of work is mbl-manifest the
\* concurrent phase ends without error, with no worker, and the run goes on
\* to the commit and push of mbl-manifest and to the summary.
C27_HubOnlyRunCompletes ==
    [][ HubIsOnlyUnit =>
          /\ exc' = NoException
          /\ clone_data' = {}
          /\ pc' \in {"update_mbl_linked_repositories_conf",
                      "mbl_manifest_repo_push"} ]_vars

\* the target is a branch or a tag, not a commit hash
IsRefTarget(T) == startswith(T, REF_BRANCH_PREFIX) \/ startswith(T, REF_TAG_PREFIX)

\* the full ref a revision attribute names for a target of the same kind
RefNamedBy(revision, T) ==
    IF startswith(T, REF_BRANCH_PREFIX) THEN REF_BRANCH_PREFIX \o revision
    ELSE REF_TAG_PREFIX \o revision

\* every push made for unit u by its worker names the ref T
worker_pushes_target(u, T) ==
    \A i \in PushesOf(u) :
        worker_pushes(repos[u]) => net_log[i].ref = T

\* C28: for every target of the form refs/heads/<name> or refs/tags/<name>,
\* names that hold a "/" included, the branch or tag the worker creates in
\* the clone and pushes has the full path of the requested target, and the
\* revision written into the manifest names the same ref.
C28_CreatedRefIsTarget ==
    /\ \A u \in Units :
           LET T == InputOf(u).new_rev IN
           IsRefTarget(T) =>
               /\ u \in Keys(wnew) => wnew[u].path = T
               /\ worker_pushes_target(u, T)
    /\ \A fn \in ManifestProjects :
           LET T == get_new_ref_from_new_revisions(new_revisions, fn[1], fn[2]) IN
           ( T # None /\ IsRefTarget(T) ) =>
               \A i \in ElementsOf(fn) :
                   LET rev == xml_files[fn[1]].projects[i].revision IN
                   RefNamedBy(IF rev = None
                              THEN manifest_file_name_to_obj[fn[1]].default_rev
                              ELSE rev, T) = T

-----------------------------------------------------------------------------
(* The answer q at a push prompt of the diagnostic mode *)

\* the operator answered q at a push prompt: the sys.exit(0) of
\* diag_repo_push was raised in a worker or in the main thread
QuitAnswered ==
    \/ exc = "SystemExit: 0"
    \/ \E u \in Keys(werr) : werr[u] = "SystemExit: 0"

-----------------------------------------------------------------------------
(* The default revision of a manifest *)

\* the default revision manifest file F declares: the revision attribute of
\* its <default> element, master when the manifest has no <default> element
\* or the element has no revision attribute
DeclaredDefault(F) ==
    IF xml_files[F].default.present /\ xml_files[F].default.revision # None
    THEN xml_files[F].default.revision
    ELSE MASTER

\* C30: when a manifest has a <default> element with a revision attribute
\* R, R is the default revision the targets of the file are compared
\* against and every project without a revision attribute of its own
\* resolves to R; master is used only when the manifest has no <default>
\* element or the element has no revision attribute.
C30_DefaultRevisionResolved ==
    [][ ManifestsProcessed =>
          \A F \in Keys(xml_files) :
              /\ F \in Keys(manifest_file_name_to_obj')
              /\ manifest_file_name_to_obj'[F].default_rev = DeclaredDefault(F)
              /\ \A i \in 1..Len(xml_files[F].projects) :
                     xml_files[F].projects[i].revision = None
                         => manifest_file_name_to_obj'[F]
                                .repo_name_to_proj[xml_files[F].projects[i].name]
                                .revision = DeclaredDefault(F) ]_vars

\* the same for the manifests whose <default> element has a child element
\* or is missing
C30_DefaultRevisionResolvedWithChildren ==
    [][ ManifestsProcessed =>
          \A F \in Keys(xml_files) :
              ( xml_files[F].default.present => xml_files[F].default.children > 0 )
              => /\ F \in Keys(manifest_file_name_to_obj')
                 /\ manifest_file_name_to_obj'[F].default_rev = DeclaredDefault(F)
                 /\ \A i \in 1..Len(xml_files[F].projects) :
                        xml_files[F].projects[i].revision = None
                            => manifest_file_name_to_obj'[F]
                                   .repo_name_to_proj[xml_files[F].projects[i].name]
                                   .revision = DeclaredDefault(F) ]_vars
=============================================================================
